---- MODULE Spec2Model ----
(***************************************************************************)
(* A model of the GPT2 byte-pair-encoding tokenizer canister:              *)
(*   - truncate_sequences / truncate_with_overflow / Tokenizer::encode     *)
(*     (tokenizer/tokenization_utils.rs, tokenizer/base_tokenizer.rs)      *)
(*   - the vocabulary maps (vocab/base_vocab.rs, vocab/gpt2_vocab.rs)      *)
(*   - the merge engine and its try-lock cache (tokenization_utils.rs)     *)
(*   - the canister entry points (lib.rs, upload.rs)                       *)
(*                                                                         *)
(* Conventions.  A Rust String is a sequence of Unicode code points, a     *)
(* Vec<u8> a sequence of byte values, an Option<T> a sequence of length 0  *)
(* (None) or 1 (Some).  A HashMap is a TLA+ function over its key set.     *)
(***************************************************************************)
EXTENDS Integers, Sequences, FiniteSets, TLC

\* ------------------------------------------------------------------------
\* Generic helpers on sequences and options
\* ------------------------------------------------------------------------
None == << >>

Some(x) == << x >>

IsSome(o) == Len(o) > 0

Unwrap(o) == o[1]

Min(a, b) == IF a <= b THEN a ELSE b

Last(s) == s[Len(s)]

\* s without its last element (Vec::pop on a non-empty vector)
Front(s) == SubSeq(s, 1, Len(s) - 1)

\* s[from..to) with 0-based, end-exclusive Rust indices
Slice(s, from, to) == SubSeq(s, from + 1, to)

\* Vec::truncate(n): no effect when n >= len
Truncate(s, n) == IF n >= Len(s) THEN s ELSE SubSeq(s, 1, n)

RECURSIVE Flatten(_)
Flatten(ss) == IF ss = << >> THEN << >> ELSE Head(ss) \o Flatten(Tail(ss))

Range(s) == { s[i] : i \in 1..Len(s) }

\* ------------------------------------------------------------------------
\* TruncationStrategy, Offset, TokenIdsWithOffsets (base_tokenizer.rs)
\* ------------------------------------------------------------------------
TruncationStrategy == { "LongestFirst", "OnlyFirst", "OnlySecond", "DoNotTruncate" }

Offset(b, e) == [begin |-> b, end |-> e]

TokenIdsWithOffsets(i, o, r, m) ==
    [ids |-> i, offsets |-> o, reference_offsets |-> r, masks |-> m]

EmptyIds == TokenIdsWithOffsets(<< >>, << >>, << >>, << >>)

\* The outcome of truncate_sequences: Ok((seq1, seq2, overflow_tokens,
\* overflow_offsets)), Err(ValueError(msg)), or a panic of the thread.
TruncOk(s1, s2, ot, oo) ==
    [kind |-> "Ok", seq1 |-> s1, seq2 |-> s2, overflow_tokens |-> ot,
     overflow_offsets |-> oo, msg |-> ""]

TruncErr(m) ==
    [kind |-> "ValueError", seq1 |-> EmptyIds, seq2 |-> None,
     overflow_tokens |-> << >>, overflow_offsets |-> << >>, msg |-> m]

TruncPanic ==
    [kind |-> "Panic", seq1 |-> EmptyIds, seq2 |-> None,
     overflow_tokens |-> << >>, overflow_offsets |-> << >>, msg |-> "panic"]

\* ------------------------------------------------------------------------
\* truncate_with_overflow (tokenization_utils.rs 394-429)
\* ------------------------------------------------------------------------
\* The wrong cutoff: one token too many is kept.
truncate_with_overflow_KeepsOneMore(s, num_tokens_to_remove, stride) ==
    LET cutoff == Len(s.ids) - num_tokens_to_remove + 1
        kept == Truncate(s.ids, cutoff)
    IN  [panic |-> FALSE,
         seq |-> TokenIdsWithOffsets(kept, Truncate(s.offsets, cutoff),
                                     Truncate(s.reference_offsets, cutoff),
                                     Truncate(s.masks, cutoff)),
         overflow_tokens |-> Slice(s.ids, Len(kept), Len(s.ids)),
         overflow_offsets |-> << >>]

truncate_with_overflow(s, num_tokens_to_remove, stride) ==
    IF \/ (s.offsets # << >> /\ Len(s.ids) # Len(s.offsets))     \* assert_eq!
       \/ (s.masks # << >> /\ Len(s.ids) # Len(s.masks))         \* assert_eq!
       \/ Len(s.ids) < num_tokens_to_remove                      \* usize underflow
    THEN [panic |-> TRUE, seq |-> s, overflow_tokens |-> << >>,
          overflow_offsets |-> << >>]
    ELSE
    LET cutoff == Len(s.ids) - num_tokens_to_remove
        sequence == Slice(s.ids, 0, cutoff)
        split_tokens == Slice(s.ids, cutoff, Len(s.ids))
        offsets == IF s.offsets # << >> THEN Slice(s.offsets, 0, cutoff)
                   ELSE s.offsets
        split_offsets == IF s.offsets # << >>
                         THEN Slice(s.offsets, cutoff, Len(s.offsets))
                         ELSE << >>
        mask == IF s.masks # << >> THEN Truncate(s.masks, cutoff) ELSE s.masks
        original_positions ==
            IF s.masks # << >> THEN Truncate(s.reference_offsets, cutoff)
            ELSE s.reference_offsets
        window_len == Min(Len(sequence), stride)
        overflow_tokens ==
            IF window_len > 0
            THEN Slice(sequence, Len(sequence) - window_len, Len(sequence))
                 \o split_tokens
            ELSE split_tokens
        overflow_offsets ==
            IF window_len > 0 /\ offsets # << >>
            THEN Slice(offsets, Len(offsets) - window_len, Len(offsets))
                 \o split_offsets
            ELSE split_offsets
    IN  [panic |-> FALSE,
         seq |-> TokenIdsWithOffsets(sequence, offsets, original_positions, mask),
         overflow_tokens |-> overflow_tokens,
         overflow_offsets |-> overflow_offsets]

\* ------------------------------------------------------------------------
\* truncate_sequences (tokenization_utils.rs 231-392)
\* ------------------------------------------------------------------------
\* Vec::pop on each of the vectors of one sequence, as the LongestFirst loop
\* does it (lines 267-275 and 277-288): ids.pop().unwrap(), offsets popped
\* when not empty, reference_offsets.pop(), masks popped when not empty.
PopToken(s) ==
    TokenIdsWithOffsets(
        Front(s.ids),
        IF s.offsets # << >> THEN Front(s.offsets) ELSE s.offsets,
        IF s.reference_offsets # << >> THEN Front(s.reference_offsets)
        ELSE s.reference_offsets,
        IF s.masks # << >> THEN Front(s.masks) ELSE s.masks)

\* The state of the LongestFirst loop over a pair: both sequences, the
\* overflow buffers and whether an unwrap() of an empty pop has panicked.
LoopState(s1, s2, ot, oo, p) ==
    [seq1 |-> s1, seq2 |-> s2, overflow_tokens |-> ot, overflow_offsets |-> oo,
     panic |-> p]

\* The tie-break the other way round: sequence 1 only when strictly longer.
PopSide_TieToSecond(st) == IF Len(st.seq1.ids) > Len(st.seq2.ids) THEN 1 ELSE 2

\* Which sequence one loop iteration pops from: 1 when sequence 1 is at
\* least as long as sequence 2 (line 264), else 2.
PopSide(st) == IF Len(st.seq1.ids) >= Len(st.seq2.ids) THEN 1 ELSE 2

\* One iteration of `for _ in 0..num_tokens_to_remove` (lines 263-290).
LongestFirstIteration(st) ==
    LET side == PopSide(st)
        s == IF side = 1 THEN st.seq1 ELSE st.seq2
    IN  IF s.ids = << >> THEN [st EXCEPT !.panic = TRUE]
        ELSE LoopState(
                IF side = 1 THEN PopToken(s) ELSE st.seq1,
                IF side = 2 THEN PopToken(s) ELSE st.seq2,
                << Last(s.ids) >> \o st.overflow_tokens,
                IF s.offsets # << >>
                THEN << Last(s.offsets) >> \o st.overflow_offsets
                ELSE st.overflow_offsets,
                FALSE)

RECURSIVE LongestFirstLoop(_, _)
LongestFirstLoop(st, remaining) ==
    IF remaining = 0 \/ st.panic THEN st
    ELSE LongestFirstLoop(LongestFirstIteration(st), remaining - 1)

\* The stride window copied in front of the overflow after the loop
\* (lines 291-307) and the Ok result.
LongestFirstWindow(st, stride) ==
    LET s1 == st.seq1
        window_len == Min(Len(s1.ids), stride)
    IN  IF st.panic THEN TruncPanic
        ELSE IF window_len > 0 /\ s1.offsets # << >>
                 /\ Len(s1.offsets) < window_len
        THEN TruncPanic                       \* slice index out of range
        ELSE TruncOk(
                s1, Some(st.seq2),
                IF window_len > 0
                THEN Slice(s1.ids, Len(s1.ids) - window_len, Len(s1.ids))
                     \o st.overflow_tokens
                ELSE st.overflow_tokens,
                IF window_len > 0 /\ s1.offsets # << >>
                THEN Slice(s1.offsets, Len(s1.offsets) - window_len,
                           Len(s1.offsets)) \o st.overflow_offsets
                ELSE st.overflow_offsets)

\* Ok(...) around a truncate_with_overflow of sequence 1 or of sequence 2.
OverflowResult(which, s1, s2opt, num_tokens_to_remove, stride) ==
    LET r == truncate_with_overflow(IF which = 1 THEN s1 ELSE Unwrap(s2opt),
                                    num_tokens_to_remove, stride)
    IN  IF r.panic THEN TruncPanic
        ELSE TruncOk(IF which = 1 THEN r.seq ELSE s1,
                     IF which = 1 THEN s2opt ELSE Some(r.seq),
                     r.overflow_tokens, r.overflow_offsets)

\* As truncate_sequences, with OnlySecond on a single sequence truncating
\* that sequence
truncate_sequences_SingleOnlySecond(s1, s2opt, num_tokens_to_remove, truncation_strategy, stride) ==
    IF num_tokens_to_remove = 0
    THEN TruncOk(s1, s2opt, << >>, << >>)
    ELSE IF IsSome(s2opt)
    THEN CASE truncation_strategy = "LongestFirst" ->
                IF Len(s1.ids) + Len(Unwrap(s2opt).ids) >= num_tokens_to_remove
                THEN LongestFirstWindow(
                        LongestFirstLoop(
                            LoopState(s1, Unwrap(s2opt), << >>, << >>, FALSE),
                            num_tokens_to_remove),
                        stride)
                ELSE TruncErr("Combined sequence length too short for requested truncation amount")
           [] truncation_strategy = "OnlyFirst" ->
                IF Len(s1.ids) >= num_tokens_to_remove
                THEN OverflowResult(1, s1, s2opt, num_tokens_to_remove, stride)
                ELSE TruncErr("First sequence too short for first only truncation")
           [] truncation_strategy = "OnlySecond" ->
                IF Len(Unwrap(s2opt).ids) >= num_tokens_to_remove
                THEN OverflowResult(2, s1, s2opt, num_tokens_to_remove, stride)
                ELSE TruncErr("Second sequence too short for second only truncation")
           [] OTHER ->
                TruncErr("Truncation needed but no truncation requested")
    ELSE IF Len(s1.ids) >= num_tokens_to_remove
    THEN CASE truncation_strategy \in {"LongestFirst", "OnlyFirst", "OnlySecond"} ->
                OverflowResult(1, s1, s2opt, num_tokens_to_remove, stride)
           [] OTHER ->
                TruncErr("Truncation needed but no truncation requested")
    ELSE TruncErr("First sequence too short for first only truncation")

truncate_sequences(s1, s2opt, num_tokens_to_remove, truncation_strategy, stride) ==
    IF num_tokens_to_remove = 0
    THEN TruncOk(s1, s2opt, << >>, << >>)
    ELSE IF IsSome(s2opt)
    THEN CASE truncation_strategy = "LongestFirst" ->
                IF Len(s1.ids) + Len(Unwrap(s2opt).ids) >= num_tokens_to_remove
                THEN LongestFirstWindow(
                        LongestFirstLoop(
                            LoopState(s1, Unwrap(s2opt), << >>, << >>, FALSE),
                            num_tokens_to_remove),
                        stride)
                ELSE TruncErr("Combined sequence length too short for requested truncation amount")
           [] truncation_strategy = "OnlyFirst" ->
                IF Len(s1.ids) >= num_tokens_to_remove
                THEN OverflowResult(1, s1, s2opt, num_tokens_to_remove, stride)
                ELSE TruncErr("First sequence too short for first only truncation")
           [] truncation_strategy = "OnlySecond" ->
                IF Len(Unwrap(s2opt).ids) >= num_tokens_to_remove
                THEN OverflowResult(2, s1, s2opt, num_tokens_to_remove, stride)
                ELSE TruncErr("Second sequence too short for second only truncation")
           [] OTHER ->
                TruncErr("Truncation needed but no truncation requested")
    ELSE IF Len(s1.ids) >= num_tokens_to_remove
    THEN CASE truncation_strategy \in {"LongestFirst", "OnlyFirst"} ->
                OverflowResult(1, s1, s2opt, num_tokens_to_remove, stride)
           [] truncation_strategy = "OnlySecond" ->
                TruncErr("Invalid truncation strategy for single sentence truncation")
           [] OTHER ->
                TruncErr("Truncation needed but no truncation requested")
    ELSE TruncErr("First sequence too short for first only truncation")

\* ------------------------------------------------------------------------
\* Characters, UTF-8 and the byte <-> printable code point table
\* ------------------------------------------------------------------------
\* char::is_whitespace / regex \s (the White_Space code points below U+0800)
IsWhitespace(c) == c \in (9..13) \cup {32, 133, 160}

\* regex \p{L}, for the code points below U+0100 and U+0130
IsLetter(c) ==
    c \in (65..90) \cup (97..122) \cup {170, 181, 186} \cup (192..214)
          \cup (216..246) \cup (248..255) \cup {304}

\* regex \p{N}, for the code points below U+0100
IsNumber(c) == c \in (48..57) \cup {178, 179, 185} \cup (188..190)

\* char::to_lowercase, for the code points below U+0100 (one char each) and
\* U+0130, which gives the two chars U+0069 U+0307
to_lowercase(c) ==
    IF c \in (65..90) \cup (192..214) \cup (216..222) THEN << c + 32 >>
    ELSE IF c = 304 THEN << 105, 775 >>
    ELSE << c >>

\* str::as_bytes of one char: its UTF-8 encoding (code points below U+0800)
Utf8Char(c) ==
    IF c < 128 THEN << c >>
    ELSE << 192 + (c \div 64), 128 + (c % 64) >>

\* char::len_utf8
len_utf8(c) == Len(Utf8Char(c))

RECURSIVE Utf8Bytes(_)
Utf8Bytes(text) ==
    IF text = << >> THEN << >>
    ELSE Utf8Char(Head(text)) \o Utf8Bytes(Tail(text))

IsContinuationByte(b) == b \in 128..191

\* std::str::from_utf8(..).is_ok(), for byte sequences whose lead bytes
\* announce at most two bytes; any other lead byte is taken as invalid.
RECURSIVE Utf8Valid(_)
Utf8Valid(bytes) ==
    IF bytes = << >> THEN TRUE
    ELSE IF Head(bytes) < 128 THEN Utf8Valid(Tail(bytes))
    ELSE IF Head(bytes) \in 194..223 /\ Len(bytes) >= 2
            /\ IsContinuationByte(bytes[2])
    THEN Utf8Valid(Tail(Tail(bytes)))
    ELSE FALSE

\* String::from_utf8_lossy: every invalid sequence becomes U+FFFD.
RECURSIVE from_utf8_lossy(_)
from_utf8_lossy(bytes) ==
    IF bytes = << >> THEN << >>
    ELSE IF Head(bytes) < 128
    THEN << Head(bytes) >> \o from_utf8_lossy(Tail(bytes))
    ELSE IF Head(bytes) \in 194..223 /\ Len(bytes) >= 2
            /\ IsContinuationByte(bytes[2])
    THEN << (Head(bytes) - 192) * 64 + (bytes[2] - 128) >>
         \o from_utf8_lossy(Tail(Tail(bytes)))
    ELSE << 65533 >> \o from_utf8_lossy(Tail(bytes))

\* The bytes that map to themselves in the byte-level table.
PrintableByte(b) == b \in (33..126) \cup (161..172) \cup (174..255)

\* BYTES_TO_UNICODE: a printable byte maps to itself, the n-th other byte
\* (counting from 0) to the code point 256 + n.  The other bytes are 0..32,
\* 127..160 and 173, so the space, byte 32, maps to U+0120.
BYTES_TO_UNICODE(b) ==
    IF PrintableByte(b) THEN b
    ELSE IF b <= 32 THEN 256 + b
    ELSE IF b <= 160 THEN 289 + (b - 127)
    ELSE 323

\* UNICODE_TO_BYTES.get(c): the inverse table, None for any other char.
UNICODE_TO_BYTES(c) ==
    IF c \in 0..255 /\ PrintableByte(c) THEN Some(c)
    ELSE IF c \in 256..288 THEN Some(c - 256)
    ELSE IF c \in 289..322 THEN Some(c - 289 + 127)
    ELSE IF c = 323 THEN Some(173)
    ELSE None

\* "<|endoftext|>"
DEFAULT_UNK_TOKEN == << 60, 124, 101, 110, 100, 111, 102, 116, 101, 120, 116, 124, 62 >>

DEFAULT_BOS_TOKEN == DEFAULT_UNK_TOKEN

DEFAULT_EOS_TOKEN == DEFAULT_UNK_TOKEN

\* ------------------------------------------------------------------------
\* HashMap helpers
\* ------------------------------------------------------------------------
EmptyMap == [k \in {} |-> 0]

\* HashMap::insert
Insert(m, k, v) == [x \in (DOMAIN m) \cup {k} |-> IF x = k THEN v ELSE m[x]]

\* HashMap::get as an Option
Get(m, k) == IF k \in DOMAIN m THEN Some(m[k]) ELSE None

MapValues(m) == { m[k] : k \in DOMAIN m }

\* ------------------------------------------------------------------------
\* swap_key_values (base_vocab.rs 14-21)
\* ------------------------------------------------------------------------
\* Collecting (value, key) pairs into a HashMap keeps, for a value that
\* several keys share, the key the iteration meets last; the iteration order
\* of a HashMap is unspecified, so every choice is a possible result.
RECURSIVE SwapOver(_, _)
SwapOver(m, vs) ==
    IF vs = {} THEN { EmptyMap }
    ELSE LET v == CHOOSE x \in vs : TRUE IN
         { Insert(f, v, k) : f \in SwapOver(m, vs \ {v}),
                             k \in { key \in DOMAIN m : m[key] = v } }

swap_key_values(m) == SwapOver(m, MapValues(m))

\* ------------------------------------------------------------------------
\* read_json_string (base_vocab.rs 44-54): serde_json::from_str into a
\* HashMap<String, i64>.  The grammar below is JSON's for an object of
\* string keys and integer values, without string escapes (no text of the
\* model holds a backslash).
\* ------------------------------------------------------------------------
JsonWs == {9, 10, 13, 32}

RECURSIVE SkipWs(_, _)
SkipWs(s, p) == IF p <= Len(s) /\ s[p] \in JsonWs THEN SkipWs(s, p + 1) ELSE p

\* The position of the closing quote of a string whose opening quote is at
\* p - 1, or 0 when the string is not closed or holds a control character
\* or a backslash.
RECURSIVE StringEnd(_, _)
StringEnd(s, p) ==
    IF p > Len(s) THEN 0
    ELSE IF s[p] = 34 THEN p
    ELSE IF s[p] < 32 \/ s[p] = 92 THEN 0
    ELSE StringEnd(s, p + 1)

RECURSIVE DigitsEnd(_, _)
DigitsEnd(s, p) ==
    IF p <= Len(s) /\ s[p] \in 48..57 THEN DigitsEnd(s, p + 1) ELSE p

RECURSIVE DigitsValue(_, _)
DigitsValue(digits, acc) ==
    IF digits = << >> THEN acc
    ELSE DigitsValue(Tail(digits), acc * 10 + (Head(digits) - 48))

JsonFail == [ok |-> FALSE, key |-> << >>, value |-> 0, next |-> 0]

\* One `"key" : integer` member starting at p.
JsonMember(s, p) ==
    IF p > Len(s) \/ s[p] # 34 THEN JsonFail
    ELSE
    LET q == StringEnd(s, p + 1) IN
    IF q = 0 THEN JsonFail
    ELSE
    LET c == SkipWs(s, q + 1) IN
    IF c > Len(s) \/ s[c] # 58 THEN JsonFail
    ELSE
    LET v == SkipWs(s, c + 1)
        neg == v <= Len(s) /\ s[v] = 45
        d == IF neg THEN v + 1 ELSE v
        e == DigitsEnd(s, d)
    IN
    IF e = d THEN JsonFail                                  \* no digit
    ELSE IF s[d] = 48 /\ e > d + 1 THEN JsonFail            \* leading zero
    ELSE IF e <= Len(s) /\ s[e] \in {46, 69, 101} THEN JsonFail  \* not an i64
    ELSE [ok |-> TRUE, key |-> SubSeq(s, p + 1, q - 1),
          value |-> (IF neg THEN -1 ELSE 1) * DigitsValue(SubSeq(s, d, e - 1), 0),
          next |-> e]

\* The members after the first one: (ws , ws member)* ws } ws end-of-input
RECURSIVE JsonMembers(_, _, _)
JsonMembers(s, p, map) ==
    LET q == SkipWs(s, p) IN
    IF q > Len(s) THEN [ok |-> FALSE, values |-> EmptyMap]
    ELSE IF s[q] = 125
    THEN [ok |-> SkipWs(s, q + 1) > Len(s), values |-> map]
    ELSE IF s[q] # 44 THEN [ok |-> FALSE, values |-> EmptyMap]
    ELSE LET m == JsonMember(s, SkipWs(s, q + 1)) IN
         IF ~m.ok THEN [ok |-> FALSE, values |-> EmptyMap]
         ELSE JsonMembers(s, m.next, Insert(map, m.key, m.value))

read_json_string(s) ==
    LET p == SkipWs(s, 1) IN
    IF p > Len(s) \/ s[p] # 123 THEN [ok |-> FALSE, values |-> EmptyMap]
    ELSE LET q == SkipWs(s, p + 1) IN
         IF q <= Len(s) /\ s[q] = 125
         THEN [ok |-> SkipWs(s, q + 1) > Len(s), values |-> EmptyMap]
         ELSE LET m == JsonMember(s, q) IN
              IF ~m.ok THEN [ok |-> FALSE, values |-> EmptyMap]
              ELSE JsonMembers(s, m.next, Insert(EmptyMap, m.key, m.value))

\* ------------------------------------------------------------------------
\* SpecialTokenMap and the registration of special values
\* (base_vocab.rs 64-127)
\* ------------------------------------------------------------------------
SpecialTokenMap(unk, pad, bos, sep, cls, eos, mask, additional) ==
    [unk_token |-> unk, pad_token |-> pad, bos_token |-> bos, sep_token |-> sep,
     cls_token |-> cls, eos_token |-> eos, mask_token |-> mask,
     additional_special_tokens |-> additional]

\* The strings register_special_values registers: the unknown token, every
\* optional token that is set, and the additional special tokens.
RegisteredTokens(stm) ==
    {stm.unk_token}
    \cup Range(stm.pad_token) \cup Range(stm.bos_token) \cup Range(stm.sep_token)
    \cup Range(stm.cls_token) \cup Range(stm.eos_token) \cup Range(stm.mask_token)
    \cup (IF IsSome(stm.additional_special_tokens)
          THEN Unwrap(stm.additional_special_tokens) ELSE {})

\* As register_special_values, without the TokenNotFound failure: a token
\* that is not a key of values is left out.
register_special_values_Unchecked(stm, values) ==
    [ok |-> TRUE,
     special_values |->
        [t \in RegisteredTokens(stm) \cap DOMAIN values |-> values[t]]]

\* register_as_special_value fails with TokenNotFound on the first token
\* that is not a key of values; otherwise each token gets its id in values.
register_special_values(stm, values) ==
    IF \E t \in RegisteredTokens(stm) : t \notin DOMAIN values
    THEN [ok |-> FALSE, special_values |-> EmptyMap]
    ELSE [ok |-> TRUE,
          special_values |-> [t \in RegisteredTokens(stm) |-> values[t]]]

\* ------------------------------------------------------------------------
\* Gpt2Vocab (gpt2_vocab.rs)
\* ------------------------------------------------------------------------
Vocab(v, i, stm, sv, si) ==
    [values |-> v, indices |-> i, special_token_map |-> stm,
     special_values |-> sv, special_indices |-> si]

\* from_values_and_special_token_map (gpt2_vocab.rs 109-128): the
\* vocabularies it may return (one per outcome of swap_key_values), or the
\* empty set when the registration of the special tokens fails.
from_values_and_special_token_map(values, stm) ==
    LET reg == register_special_values(stm, values) IN
    IF ~reg.ok THEN {}
    ELSE { Vocab(values, i, stm, reg.special_values, si) :
             i \in swap_key_values(values),
             si \in swap_key_values(reg.special_values) }

Gpt2SpecialTokenMap ==
    SpecialTokenMap(DEFAULT_UNK_TOKEN, None, Some(DEFAULT_BOS_TOKEN), None, None,
                    Some(DEFAULT_EOS_TOKEN), None, None)

\* Gpt2Vocab::from_cache (gpt2_vocab.rs 93-107): Err is the empty set.
Gpt2Vocab_from_cache(text) ==
    LET parsed == read_json_string(text) IN
    IF ~parsed.ok THEN {}
    ELSE from_values_and_special_token_map(parsed.values, Gpt2SpecialTokenMap)

get_unknown_value(vocab) == vocab.special_token_map.unk_token

\* _token_to_id (base_vocab.rs 185-199); the unwrap() of a missing unknown
\* token is a panic, rendered as the Option None.
token_to_id(vocab, token) ==
    IF token \in DOMAIN vocab.special_values
    THEN Some(vocab.special_values[token])
    ELSE IF token \in DOMAIN vocab.values THEN Some(vocab.values[token])
    ELSE Get(vocab.values, get_unknown_value(vocab))

\* _id_to_token (base_vocab.rs 214-228)
id_to_token(vocab, id) ==
    IF id \in DOMAIN vocab.special_indices THEN vocab.special_indices[id]
    ELSE IF id \in DOMAIN vocab.indices THEN vocab.indices[id]
    ELSE get_unknown_value(vocab)

\* add_tokens (base_vocab.rs 289-306): the tokens not yet in values, in the
\* order of the list (a token listed twice is pushed twice), get the ids
\* values.len(), values.len() + 1, ... in all four maps.
RECURSIVE AddEach(_, _, _)
AddEach(vocab, tokens_to_add, current_index) ==
    IF tokens_to_add = << >> THEN vocab
    ELSE LET t == Head(tokens_to_add) IN
         AddEach([vocab EXCEPT
                    !.values = Insert(@, t, current_index),
                    !.indices = Insert(@, current_index, t),
                    !.special_values = Insert(@, t, current_index),
                    !.special_indices = Insert(@, current_index, t)],
                 Tail(tokens_to_add), current_index + 1)

add_tokens(vocab, tokens) ==
    LET tokens_to_add == SelectSeq(tokens, LAMBDA t : t \notin DOMAIN vocab.values)
    IN  AddEach(vocab, tokens_to_add, Cardinality(DOMAIN vocab.values))

\* i64 formatted in decimal ({extra_id} in format!), for i >= 0
RECURSIVE FormatDecimal(_)
FormatDecimal(i) ==
    IF i < 10 THEN << 48 + i >>
    ELSE FormatDecimal(i \div 10) \o << 48 + (i % 10) >>

\* format!("<extra_id_{extra_id}>")
ExtraIdToken(extra_id) ==
    << 60, 101, 120, 116, 114, 97, 95, 105, 100, 95 >> \o FormatDecimal(extra_id)
    \o << 62 >>

\* add_extra_ids (base_vocab.rs 268-280)
add_extra_ids(vocab, num_extra_ids) ==
    add_tokens(vocab, [i \in 1..num_extra_ids |-> ExtraIdToken(i - 1)])

\* ------------------------------------------------------------------------
\* BpePairVocab (bpe_vocab.rs)
\* ------------------------------------------------------------------------
\* str::lines(): split at "\n", a final empty piece dropped, a trailing "\r"
\* of a line removed.
RECURSIVE Lines(_, _)
Lines(text, current) ==
    IF text = << >> THEN (IF current = << >> THEN << >> ELSE << current >>)
    ELSE IF Head(text) = 10
    THEN << (IF current # << >> /\ Last(current) = 13 THEN Front(current)
             ELSE current) >> \o Lines(Tail(text), << >>)
    ELSE Lines(Tail(text), Append(current, Head(text)))

RECURSIVE TrimStart(_)
TrimStart(s) ==
    IF s # << >> /\ IsWhitespace(Head(s)) THEN TrimStart(Tail(s)) ELSE s

\* str::trim_end
RECURSIVE trim_end(_)
trim_end(s) ==
    IF s # << >> /\ IsWhitespace(Last(s)) THEN trim_end(Front(s)) ELSE s

\* str::trim
trim(s) == trim_end(TrimStart(s))

\* str::split(' '): the pieces between single spaces (empty pieces kept)
RECURSIVE SplitOnSpace(_, _)
SplitOnSpace(s, current) ==
    IF s = << >> THEN << current >>
    ELSE IF Head(s) = 32 THEN << current >> \o SplitOnSpace(Tail(s), << >>)
    ELSE SplitOnSpace(Tail(s), Append(current, Head(s)))

\* The loop of BpePairVocab::from_cache over the lines after the header.
RECURSIVE InsertMerges(_, _, _)
InsertMerges(lines, data, index) ==
    IF lines = << >> THEN data
    ELSE LET tuple == SplitOnSpace(trim(Head(lines)), << >>) IN
         IF Len(tuple) > 1
         THEN InsertMerges(Tail(lines),
                           Insert(data, << tuple[1], tuple[2] >>, index),
                           index + 1)
         ELSE InsertMerges(Tail(lines), data, index)

\* BpePairVocab::from_cache (bpe_vocab.rs 32-48): always Ok.
BpePairVocab_from_cache(text) ==
    LET lines == Lines(text, << >>) IN
    [values |-> InsertMerges(IF lines = << >> THEN << >> ELSE Tail(lines),
                             EmptyMap, 0)]

\* byte_pair_to_id (bpe_vocab.rs 66-74)
byte_pair_to_id(bpe_ranks, byte_1, byte_2) ==
    Get(bpe_ranks.values, << byte_1, byte_2 >>)

\* ------------------------------------------------------------------------
\* Token / TokenRef (base_tokenizer.rs 93-148, 303-354)
\* ------------------------------------------------------------------------
Token(t, o, r, m) == [text |-> t, offset |-> o, reference_offsets |-> r, mask |-> m]

\* str::starts_with
starts_with(s, prefix) ==
    Len(prefix) <= Len(s) /\ SubSeq(s, 1, Len(prefix)) = prefix

\* ------------------------------------------------------------------------
\* split_on_special_tokens / split_on_substr (tokenization_utils.rs 35-53,
\* 129-206)
\* ------------------------------------------------------------------------
\* test_substr: the special values that are a prefix of s.  The closure
\* returns the first one that the iteration over the HashMap's keys meets;
\* key_order is that iteration order.
RECURSIVE test_substr(_, _, _)
test_substr(vocab, key_order, s) ==
    IF key_order = << >> THEN [bytes |-> 0, chars |-> 0, mask |-> "None"]
    ELSE IF starts_with(s, Head(key_order))
    THEN [bytes |-> Len(Utf8Bytes(Head(key_order))),
          chars |-> Len(Head(key_order)),
          mask |-> IF get_unknown_value(vocab) = Head(key_order)
                   THEN "Unknown" ELSE "Special"]
    ELSE test_substr(vocab, Tail(key_order), s)

\* The body of the loop over char_indices (lines 145-186) at char_idx, on
\* the loop state [tokens, char_begin].
SubstrStep(token, vocab, key_order, add_separators, st, char_idx) ==
    LET m == test_substr(vocab, key_order,
                         Slice(token.text, char_idx, Len(token.text)))
        trimmed_text == trim_end(Slice(token.text, st.char_begin, char_idx))
        trimmed_text_len == Len(trimmed_text)
        previous ==
            IF st.char_begin < char_idx /\ trimmed_text_len > 0
            THEN << Token(trimmed_text,
                          Offset(token.offset.begin + st.char_begin,
                                 token.offset.begin + st.char_begin + trimmed_text_len),
                          Slice(token.reference_offsets, st.char_begin,
                                st.char_begin + trimmed_text_len),
                          "None") >>
            ELSE << >>
        separator ==
            IF add_separators
            THEN << Token(Slice(token.text, char_idx, char_idx + m.chars),
                          Offset(token.offset.begin + char_idx,
                                 token.offset.begin + char_idx + m.chars),
                          Slice(token.reference_offsets, char_idx, char_idx + m.chars),
                          m.mask) >>
            ELSE << >>
    IN  IF m.chars > 0
        THEN [tokens |-> st.tokens \o previous \o separator,
              char_begin |-> char_idx + m.chars]
        ELSE st

RECURSIVE SubstrLoop(_, _, _, _, _, _)
SubstrLoop(token, vocab, key_order, add_separators, st, char_idx) ==
    IF char_idx >= Len(token.text) THEN st
    ELSE SubstrLoop(token, vocab, key_order, add_separators,
                    SubstrStep(token, vocab, key_order, add_separators, st, char_idx),
                    char_idx + 1)

\* split_on_substr with the test function of split_on_special_tokens
split_on_substr(token, vocab, key_order, add_separators) ==
    LET start == [tokens |-> << >>, char_begin |-> 0]
        st == IF token.mask = "None"
              THEN SubstrLoop(token, vocab, key_order, add_separators, start, 0)
              ELSE start
        n == Len(token.text)
    IN  IF st.char_begin < n
        THEN st.tokens \o
             << Token(Slice(token.text, st.char_begin, n),
                      Offset(token.offset.begin + st.char_begin,
                             token.offset.begin + n),
                      Slice(token.reference_offsets, st.char_begin, n),
                      "None") >>
        ELSE st.tokens

split_on_special_tokens(token, vocab, key_order) ==
    split_on_substr(token, vocab, key_order, TRUE)

\* ------------------------------------------------------------------------
\* lowercase (tokenization_utils.rs 56-70)
\* ------------------------------------------------------------------------
RECURSIVE LowercaseChars(_, _)
LowercaseChars(text, positions) ==
    IF text = << >> \/ positions = << >>
    THEN [text |-> << >>, mapping |-> << >>]
    ELSE LET lower == to_lowercase(Head(text))
             rest == LowercaseChars(Tail(text), Tail(positions))
         IN  [text |-> lower \o rest.text,
              mapping |-> [i \in 1..Len(lower) |-> Head(positions)] \o rest.mapping]

lowercase(token) ==
    LET l == LowercaseChars(token.text, token.reference_offsets) IN
    Token(l.text,
          Offset(IF l.mapping = << >> THEN 0 ELSE Head(l.mapping),
                 (IF l.mapping = << >> THEN 0 ELSE Last(l.mapping)) + 1),
          l.mapping, token.mask)

\* ------------------------------------------------------------------------
\* split_on_regex_with_lookahead (tokenization_utils.rs 72-120) with the
\* two patterns of Gpt2Tokenizer (gpt2_tokenizer.rs 60-64)
\* ------------------------------------------------------------------------
\* The end (exclusive, 0-based) of the run of chars from p on that satisfy a
\* class; the three classes of the patterns are numbered.
InClass(k, c) ==
    CASE k = "L" -> IsLetter(c)
      [] k = "N" -> IsNumber(c)
      [] k = "S" -> IsWhitespace(c)
      [] OTHER -> ~IsWhitespace(c) /\ ~IsLetter(c) /\ ~IsNumber(c)

RECURSIVE RunEnd(_, _, _)
RunEnd(k, s, p) ==
    IF p < Len(s) /\ InClass(k, s[p + 1]) THEN RunEnd(k, s, p + 1) ELSE p

\* pattern_lookahead \s+\S: the first hit at or after p, as [start, end), or
\* None.  A whitespace run matches only when a non-space char follows it.
RECURSIVE LookaheadHit(_, _)
LookaheadHit(s, p) ==
    IF p >= Len(s) THEN None
    ELSE IF ~IsWhitespace(s[p + 1]) THEN LookaheadHit(s, p + 1)
    ELSE LET e == RunEnd("S", s, p) IN
         IF e < Len(s) THEN Some([start |-> p, end |-> e + 1])
         ELSE None

\* The loop over pattern_lookahead.find_iter (lines 83-91): the pieces the
\* text is cut into, from the cut position i and the search position p on.
RECURSIVE LookaheadSplits(_, _, _)
LookaheadSplits(s, i, p) ==
    LET hit == LookaheadHit(s, p) IN
    IF hit = None THEN << Slice(s, i, Len(s)) >>
    ELSE LET h == Unwrap(hit)
             start == s[h.end]                 \* the last char of the hit
             sep == s[h.end - 1]               \* the char before it
             \* end_byte, as a char index: every char of a hit is counted
             \* by len_utf8 in bytes, and so is one char here
             end_char == h.end - 2
         IN  << Slice(s, i, end_char) >> \o LookaheadSplits(s, end_char, h.end)

\* "'s", "'t", "'re", "'ve", "'m", "'ll", "'d"
Contractions ==
    << << 39, 115 >>, << 39, 116 >>, << 39, 114, 101 >>, << 39, 118, 101 >>,
       << 39, 109 >>, << 39, 108, 108 >>, << 39, 100 >> >>

\* ` ?` followed by a non-empty run of class k at p: the end of the match,
\* or p when this alternative does not match at p.
OptSpaceRun(k, s, p) ==
    IF p + 1 < Len(s) /\ s[p + 1] = 32 /\ InClass(k, s[p + 2])
    THEN RunEnd(k, s, p + 1)
    ELSE RunEnd(k, s, p)

\* pattern_tokenization at p: the end of the first alternative that matches
\* 's|'t|'re|'ve|'m|'ll|'d| ?\p{L}+| ?\p{N}+| ?[^\s\p{L}\p{N}]+|\s+
TokenizationMatchEnd(s, p) ==
    LET rest == Slice(s, p, Len(s))
        cs == { i \in 1..Len(Contractions) : starts_with(rest, Contractions[i]) }
    IN  IF cs # {}
        THEN p + Len(Contractions[CHOOSE i \in cs : \A j \in cs : i <= j])
        ELSE IF OptSpaceRun("L", s, p) > p THEN OptSpaceRun("L", s, p)
        ELSE IF OptSpaceRun("N", s, p) > p THEN OptSpaceRun("N", s, p)
        ELSE IF OptSpaceRun("O", s, p) > p THEN OptSpaceRun("O", s, p)
        ELSE RunEnd("S", s, p)

\* pattern_tokenization.find_iter over one piece
RECURSIVE TokenizationHits(_, _)
TokenizationHits(s, p) ==
    IF p >= Len(s) THEN << >>
    ELSE LET e == TokenizationMatchEnd(s, p) IN
         IF e = p THEN TokenizationHits(s, p + 1)      \* no match at p
         ELSE << Slice(s, p, e) >> \o TokenizationHits(s, e)

RECURSIVE SubWords(_)
SubWords(splits) ==
    IF splits = << >> THEN << >>
    ELSE TokenizationHits(Head(splits), 0) \o SubWords(Tail(splits))

RECURSIVE SubWordTokens(_, _, _)
SubWordTokens(token, sub_words, begin_char) ==
    IF sub_words = << >> THEN << >>
    ELSE LET end_char == begin_char + Len(Head(sub_words)) IN
         << Token(Head(sub_words),
                  Offset(token.offset.begin + begin_char,
                         token.offset.begin + end_char),
                  Slice(token.reference_offsets, begin_char, end_char),
                  "None") >>
         \o SubWordTokens(token, Tail(sub_words), end_char)

split_on_regex_with_lookahead(token) ==
    IF token.mask = "None"
    THEN SubWordTokens(token, SubWords(LookaheadSplits(token.text, 0, 0)), 0)
    ELSE << token >>

\* ------------------------------------------------------------------------
\* get_pairs / group_common_pairs / bpe (tokenization_utils.rs 431-513)
\* ------------------------------------------------------------------------
\* get_pairs: the set of adjacent pairs, None below two symbols
get_pairs(tokens) ==
    IF Len(tokens) < 2 THEN None
    ELSE Some({ << tokens[i], tokens[i + 1] >> : i \in 1..(Len(tokens) - 1) })

\* The order of min_by_key: the key of a pair is its rank, or i64::MAX when
\* it has none, so a ranked pair comes before every pair without a rank.
PairKeyLeq(bpe_ranks, p, q) ==
    LET rp == byte_pair_to_id(bpe_ranks, p[1], p[2])
        rq == byte_pair_to_id(bpe_ranks, q[1], q[2])
    IN  IF IsSome(rq) THEN IsSome(rp) /\ Unwrap(rp) <= Unwrap(rq) ELSE TRUE

\* min_by_key over the pair set: a pair of least key.  Two pairs of the same
\* key both have no rank (ranks are distinct), and then the caller returns
\* (tokens, true) whichever was met.
MinPair(bpe_ranks, pairs) ==
    CHOOSE p \in pairs : \A q \in pairs : PairKeyLeq(bpe_ranks, p, q)

\* position(|r| r == byte_1) in tokens[i..], as an absolute 0-based index,
\* or Len(tokens) when there is none
RECURSIVE PositionFrom(_, _, _)
PositionFrom(tokens, byte_1, i) ==
    IF i >= Len(tokens) THEN Len(tokens)
    ELSE IF tokens[i + 1] = byte_1 THEN i
    ELSE PositionFrom(tokens, byte_1, i + 1)

\* As the while loop, but only the first occurrence of the pair is merged
RECURSIVE MergeLoop_FirstOccurrence(_, _, _, _)
MergeLoop_FirstOccurrence(tokens, bigram, i, temp_sub_tokens) ==
    IF i >= Len(tokens) THEN temp_sub_tokens
    ELSE LET j == PositionFrom(tokens, bigram[1], i) IN
         IF j = Len(tokens)
         THEN temp_sub_tokens \o Slice(tokens, i, Len(tokens))
         ELSE LET copied == temp_sub_tokens \o Slice(tokens, i, j) IN
              IF j < Len(tokens) - 1 /\ tokens[j + 2] = bigram[2]
              THEN Append(copied, bigram[1] \o bigram[2])
                      \o Slice(tokens, j + 2, Len(tokens))
              ELSE MergeLoop_FirstOccurrence(tokens, bigram, j + 1,
                                             Append(copied, bigram[1]))

\* The while loop of group_common_pairs (lines 461-486)
RECURSIVE MergeLoop(_, _, _, _)
MergeLoop(tokens, bigram, i, temp_sub_tokens) ==
    IF i >= Len(tokens) THEN temp_sub_tokens
    ELSE LET j == PositionFrom(tokens, bigram[1], i) IN
         IF j = Len(tokens)
         THEN temp_sub_tokens \o Slice(tokens, i, Len(tokens))
         ELSE LET copied == temp_sub_tokens \o Slice(tokens, i, j) IN
              IF j < Len(tokens) - 1 /\ tokens[j + 2] = bigram[2]
              THEN MergeLoop(tokens, bigram, j + 2,
                             Append(copied, bigram[1] \o bigram[2]))
              ELSE MergeLoop(tokens, bigram, j + 1, Append(copied, bigram[1]))

\* As group_common_pairs, but the symbols are handed back unmerged
group_common_pairs_NoMerge(tokens, bpe_ranks) ==
    LET pairs == get_pairs(tokens) IN
    IF pairs = None THEN [tokens |-> tokens, done |-> TRUE]
    ELSE LET bigram == MinPair(bpe_ranks, Unwrap(pairs)) IN
         IF byte_pair_to_id(bpe_ranks, bigram[1], bigram[2]) = None
         THEN [tokens |-> tokens, done |-> TRUE]
         ELSE [tokens |-> tokens, done |-> Len(tokens) = 1]

\* group_common_pairs: (tokens, done)
group_common_pairs(tokens, bpe_ranks) ==
    LET pairs == get_pairs(tokens) IN
    IF pairs = None THEN [tokens |-> tokens, done |-> TRUE]
    ELSE LET bigram == MinPair(bpe_ranks, Unwrap(pairs)) IN
         IF byte_pair_to_id(bpe_ranks, bigram[1], bigram[2]) = None
         THEN [tokens |-> tokens, done |-> TRUE]
         ELSE LET temp_sub_tokens == MergeLoop(tokens, bigram, 0, << >>) IN
              [tokens |-> temp_sub_tokens, done |-> Len(temp_sub_tokens) = 1]

\* The loop of bpe (lines 502-508): group_common_pairs until it says done
RECURSIVE BpeLoop(_, _)
RECURSIVE BpeLoopAfter(_, _)
BpeLoopAfter(output, bpe_ranks) ==
    IF output.done THEN output.tokens ELSE BpeLoop(output.tokens, bpe_ranks)

BpeLoop(tokens, bpe_ranks) ==
    BpeLoopAfter(group_common_pairs(tokens, bpe_ranks), bpe_ranks)

\* The pieces with their char counts (lines 509-512)
WithCharCounts(output) ==
    << output, [i \in 1..Len(output) |-> Len(output[i])] >>

\* bpe: (pieces, char counts of the pieces)
bpe(token, bpe_ranks) ==
    WithCharCounts(BpeLoop([i \in 1..Len(token) |-> << token[i] >>], bpe_ranks))

\* ------------------------------------------------------------------------
\* split_on_bpe_pairs (tokenization_utils.rs 515-621), as_bytes = true
\* ------------------------------------------------------------------------
\* bytes_offsets: for every byte of text the index of its char
RECURSIVE bytes_offsets(_, _)
bytes_offsets(text, char_idx) ==
    IF text = << >> THEN << >>
    ELSE [i \in 1..len_utf8(Head(text)) |-> char_idx]
         \o bytes_offsets(Tail(text), char_idx + 1)

\* The byte-level projection of the pre-token: the text that is merged and
\* the reference offset of each of its symbols (lines 538-549)
ProjectedText(token) ==
    LET bytes == Utf8Bytes(token.text) IN
    [i \in 1..Len(bytes) |-> BYTES_TO_UNICODE(bytes[i])]

ProjectedOffsets(token) ==
    LET offs == bytes_offsets(token.text, 0) IN
    [i \in 1..Len(offs) |-> token.reference_offsets[offs[i] + 1]]

\* The loops at lines 557-581 and 595-618: the pieces as tokens over the
\* reference offsets, from the offset index start on
RECURSIVE PieceTokens(_, _, _, _, _, _)
PieceTokens(pieces, char_counts, reference_offsets, idx, start, total) ==
    IF idx > Len(pieces) \/ idx > Len(char_counts) THEN << >>
    ELSE LET char_count == char_counts[idx] IN
         << Token(pieces[idx],
                  Offset(reference_offsets[start + 1],
                         reference_offsets[start + char_count] + 1),
                  Slice(reference_offsets, start, start + char_count),
                  IF total > 1
                  THEN (IF idx = 1 THEN "Begin" ELSE "Continuation")
                  ELSE "None") >>
         \o PieceTokens(pieces, char_counts, reference_offsets, idx + 1,
                        start + char_count, total)

\* cache.get that returns an entry whatever the key: used to show that the
\* result rests on the entry being the one of the text
CacheGet_AnyEntry(bpe_cache, text) ==
    IF DOMAIN bpe_cache = {} THEN None
    ELSE Some(bpe_cache[CHOOSE k \in DOMAIN bpe_cache : TRUE])

\* cache.get(text) under the read lock (line 555)
CacheGet(bpe_cache, text) == Get(bpe_cache, text)

\* A cache that holds one entry only: the insert evicts what was there
cache_insert_Evicts(bpe_cache, text, entry) == Insert(EmptyMap, text, entry)

\* cache.insert(text.to_owned(), (bpe_output.clone(), char_counts.clone()))
\* under the write lock (line 593)
cache_insert(bpe_cache, text, entry) == Insert(bpe_cache, text, entry)

\* As EntryTokens, but every piece is given the reference offsets of the
\* whole pre-token
EntryTokens_WholeOffsets(entry, reference_offsets) ==
    [idx \in 1..Len(entry[1]) |->
        Token(entry[1][idx],
              Offset(Head(reference_offsets), Last(reference_offsets) + 1),
              reference_offsets,
              IF Len(entry[1]) > 1
              THEN (IF idx = 1 THEN "Begin" ELSE "Continuation")
              ELSE "None")]

\* The tokens of an entry (pieces, char counts), cached or just computed
EntryTokens(entry, reference_offsets) ==
    PieceTokens(entry[1], entry[2], reference_offsets, 1, 0, Len(entry[1]))

\* Lines 591-619: the merge was computed; it is stored when try_write
\* succeeded.
SplitComputed(text, entry, reference_offsets, bpe_cache, write_ok) ==
    [tokens |-> EntryTokens(entry, reference_offsets),
     cache |-> IF write_ok THEN cache_insert(bpe_cache, text, entry) ELSE bpe_cache]

\* Lines 554-619 on the projected text
SplitProjected(text, reference_offsets, bpe_ranks, bpe_cache, read_ok, write_ok) ==
    IF read_ok /\ CacheGet(bpe_cache, text) # None
    THEN [tokens |-> EntryTokens(Unwrap(CacheGet(bpe_cache, text)), reference_offsets),
          cache |-> bpe_cache]
    ELSE SplitComputed(text, bpe(text, bpe_ranks), reference_offsets, bpe_cache,
                       write_ok)

\* One call, given the cache content and the outcomes of its try_read and
\* try_write: the tokens it returns and the cache content it leaves.
split_on_bpe_pairs(token, bpe_ranks, bpe_cache, read_ok, write_ok) ==
    SplitProjected(ProjectedText(token), ProjectedOffsets(token), bpe_ranks,
                   bpe_cache, read_ok, write_ok)

\* ------------------------------------------------------------------------
\* fix_mask (tokenization_utils.rs 623-631)
\* ------------------------------------------------------------------------
RECURSIVE FixMaskFrom(_, _)
FixMaskFrom(tokens, i) ==
    IF i >= Len(tokens) THEN tokens
    ELSE FixMaskFrom(
            IF tokens[i + 1].mask = "Continuation" /\ tokens[i].mask = "None"
            THEN [tokens EXCEPT ![i].mask = "Begin"]
            ELSE tokens,
            i + 1)

\* The repair the other way round: the Continuation token itself becomes
\* Begin when the token before it has the mask None
fix_mask_RewritesContinuation(tokens) ==
    [i \in 1..Len(tokens) |->
        IF i > 1 /\ tokens[i].mask = "Continuation" /\ tokens[i - 1].mask = "None"
        THEN [tokens[i] EXCEPT !.mask = "Begin"]
        ELSE tokens[i]]

fix_mask(tokens) == FixMaskFrom(tokens, 1)

\* ------------------------------------------------------------------------
\* Gpt2Tokenizer (gpt2_tokenizer.rs)
\* ------------------------------------------------------------------------
\* from_existing_vocab_and_merges: the cache starts empty.  The two regular
\* expressions are the fixed patterns modelled above.
from_existing_vocab_and_merges(vocab, merges, lower_case) ==
    [vocab |-> vocab, bpe_ranks |-> merges, cache |-> EmptyMap,
     lower_case |-> lower_case]

\* The iteration orders of special_values().keys(): its permutations.
KeyOrders(vocab) ==
    LET keys == DOMAIN vocab.special_values
        n == Cardinality(keys)
    IN  { o \in [1..n -> keys] : \A i, j \in 1..n : i # j => o[i] # o[j] }

\* The inner loop of tokenize_to_tokens (lines 92-104) over the pre-tokens
\* of one span.  Within one thread no one else holds the cache lock, so
\* try_read and try_write succeed.
TokensBefore(tokens, rest) ==
    [tokens |-> tokens \o rest.tokens, cache |-> rest.cache]

RECURSIVE BpeOverPreTokens(_, _, _)
RECURSIVE BpeOverRest(_, _, _)
BpeOverRest(first, pre_tokens, bpe_ranks) ==
    TokensBefore(first.tokens, BpeOverPreTokens(pre_tokens, bpe_ranks, first.cache))

BpeOverPreTokens(pre_tokens, bpe_ranks, bpe_cache) ==
    IF pre_tokens = << >> THEN [tokens |-> << >>, cache |-> bpe_cache]
    ELSE BpeOverRest(split_on_bpe_pairs(Head(pre_tokens), bpe_ranks, bpe_cache,
                                        TRUE, TRUE),
                     Tail(pre_tokens), bpe_ranks)

\* The outer loop of tokenize_to_tokens (lines 87-108).
\* One span (lines 88-107): a special token is kept, any other span is
\* lowercased if asked, split by the regular expressions and merged.
TokenizeSpan(tokenizer, token, bpe_cache) ==
    IF token.mask # "Special" /\ token.mask # "Unknown"
    THEN BpeOverPreTokens(
            split_on_regex_with_lookahead(
                IF tokenizer.lower_case THEN lowercase(token) ELSE token),
            tokenizer.bpe_ranks, bpe_cache)
    ELSE [tokens |-> << token >>, cache |-> bpe_cache]

RECURSIVE TokenizeSpans(_, _, _)
RECURSIVE TokenizeRest(_, _, _)
TokenizeRest(tokenizer, first, tokens) ==
    TokensBefore(first.tokens, TokenizeSpans(tokenizer, tokens, first.cache))

TokenizeSpans(tokenizer, tokens, bpe_cache) ==
    IF tokens = << >> THEN [tokens |-> << >>, cache |-> bpe_cache]
    ELSE TokenizeRest(tokenizer, TokenizeSpan(tokenizer, Head(tokens), bpe_cache),
                      Tail(tokens))

\* Line 109: fix_mask on the tokens
WithFixedMask(r) == [tokens |-> fix_mask(r.tokens), cache |-> r.cache]

\* tokenize_to_tokens (gpt2_tokenizer.rs 84-116): the tokens and the cache
\* content the call leaves.
tokenize_to_tokens(tokenizer, key_order, initial_token) ==
    WithFixedMask(
        TokenizeSpans(
            tokenizer,
            split_on_special_tokens(initial_token, tokenizer.vocab, key_order),
            tokenizer.cache))

\* ------------------------------------------------------------------------
\* Tokenizer::tokenize_with_offsets, encode, decode (base_tokenizer.rs)
\* ------------------------------------------------------------------------
TokensWithOffsets(t, o, r, m) ==
    [tokens |-> t, offsets |-> o, reference_offsets |-> r, masks |-> m]

\* TokenRef::new(text, offsets)
TokenRef_new(text, offsets) == Token(text, Offset(0, Len(offsets)), offsets, "None")

\* tokenize_with_offsets (lines 508-545)
\* Lines 522-544: the four vectors of the tokens
TokensOut(tokens, bpe_cache) ==
    [out |-> TokensWithOffsets(
                [i \in 1..Len(tokens) |-> tokens[i].text],
                [i \in 1..Len(tokens) |->
                    IF tokens[i].reference_offsets # << >>
                    THEN Some(Offset(Head(tokens[i].reference_offsets),
                                     Last(tokens[i].reference_offsets) + 1))
                    ELSE None],
                [i \in 1..Len(tokens) |-> tokens[i].reference_offsets],
                [i \in 1..Len(tokens) |-> tokens[i].mask]),
     cache |-> bpe_cache]

TokensOutOf(r) == TokensOut(r.tokens, r.cache)

tokenize_with_offsets(tokenizer, key_order, text) ==
    IF trim(text) = << >>
    THEN [out |-> TokensWithOffsets(<< >>, << >>, << >>, << >>),
          cache |-> tokenizer.cache]
    ELSE TokensOutOf(
            tokenize_to_tokens(tokenizer, key_order,
                               TokenRef_new(text, [i \in 1..Len(text) |-> i - 1])))

\* convert_tokens_to_ids (lines 662-671): None when a token_to_id panics
convert_tokens_to_ids(tokenizer, tokens) ==
    IF \E i \in 1..Len(tokens) : token_to_id(tokenizer.vocab, tokens[i]) = None
    THEN None
    ELSE Some([i \in 1..Len(tokens) |-> Unwrap(token_to_id(tokenizer.vocab, tokens[i]))])

\* build_input_with_special_tokens (lines 1158-1191)
\* As build_input_with_special_tokens, without the extension of
\* special_tokens_mask by the second sequence
build_input_with_special_tokens_ShortMask(s1, s2opt) ==
    LET s2 == IF IsSome(s2opt) THEN Unwrap(s2opt) ELSE EmptyIds
    IN  [token_ids |-> s1.ids \o s2.ids,
         segment_ids |-> [i \in 1..Len(s1.ids) |-> 0] \o [i \in 1..Len(s2.ids) |-> 1],
         special_tokens_mask |-> [i \in 1..Len(s1.ids) |-> 0],
         token_offsets |-> s1.offsets \o s2.offsets,
         reference_offsets |-> s1.reference_offsets \o s2.reference_offsets,
         mask |-> s1.masks \o s2.masks]

build_input_with_special_tokens(s1, s2opt) ==
    LET n1 == Len(s1.ids)
        n2 == IF IsSome(s2opt) THEN Len(Unwrap(s2opt).ids) ELSE 0
        s2 == IF IsSome(s2opt) THEN Unwrap(s2opt) ELSE EmptyIds
    IN  [token_ids |-> s1.ids \o s2.ids,
         segment_ids |-> [i \in 1..n1 |-> 0] \o [i \in 1..n2 |-> 1],
         special_tokens_mask |-> [i \in 1..(n1 + n2) |-> 0],
         token_offsets |-> s1.offsets \o s2.offsets,
         reference_offsets |-> s1.reference_offsets \o s2.reference_offsets,
         mask |-> s1.masks \o s2.masks]

\* The ids and offsets of one side of encode (lines 717-725, 728-737)
SideOf(t, ids) ==
    [panic |-> ids = None,
     seq |-> TokenIdsWithOffsets(IF ids = None THEN << >> ELSE Unwrap(ids),
                                 t.out.offsets, t.out.reference_offsets,
                                 t.out.masks),
     cache |-> t.cache]

SideOfTokens(tokenizer, t) ==
    SideOf(t, convert_tokens_to_ids(tokenizer, t.out.tokens))

EncodeSide(tokenizer, key_order, text) ==
    SideOfTokens(tokenizer, tokenize_with_offsets(tokenizer, key_order, text))

EncodePanic(cache) ==
    [panic |-> TRUE, pre_truncation_len |-> 0, cache |-> cache,
     input |-> [token_ids |-> << >>, segment_ids |-> << >>,
                special_tokens_mask |-> << >>, overflowing_tokens |-> << >>,
                num_truncated_tokens |-> 0, token_offsets |-> << >>,
                reference_offsets |-> << >>, mask |-> << >>]]

\* encode (lines 709-795): the TokenizedInput, or the panic of the unwrap()
\* of an Err of truncate_sequences; with it the number of ids before the
\* truncation and the cache content the call leaves.
\* Lines 785-794: the TokenizedInput
TokenizedInput(merged, truncated, num_truncated_tokens) ==
    [token_ids |-> merged.token_ids,
     segment_ids |-> merged.segment_ids,
     special_tokens_mask |-> merged.special_tokens_mask,
     overflowing_tokens |-> truncated.overflow_tokens,
     num_truncated_tokens |-> num_truncated_tokens,
     token_offsets |-> merged.token_offsets,
     reference_offsets |-> merged.reference_offsets,
     mask |-> merged.mask]

\* Lines 780-794: the unwrap() of the truncation, then the merge of the two
\* sequences
EncodeTruncated(side_1, side_2, truncated, total_len, num_truncated_tokens) ==
    IF side_1.panic \/ side_2.panic \/ truncated.kind # "Ok"
    THEN EncodePanic(side_2.cache)
    ELSE [panic |-> FALSE,
          pre_truncation_len |-> total_len,
          cache |-> side_2.cache,
          input |-> TokenizedInput(
                       build_input_with_special_tokens(truncated.seq1,
                                                       truncated.seq2),
                       truncated, num_truncated_tokens)]

\* Lines 763-779: num_truncated_tokens and the call of truncate_sequences
EncodeLengths(side_1, side_2, has_2, total_len, max_len, truncation_strategy, stride) ==
    EncodeTruncated(
        side_1, side_2,
        truncate_sequences(side_1.seq,
                           IF has_2 THEN Some(side_2.seq) ELSE None,
                           IF total_len > max_len THEN total_len - max_len ELSE 0,
                           truncation_strategy, stride),
        total_len,
        IF total_len > max_len THEN total_len - max_len ELSE 0)

\* Lines 744-762: the total length, with the ids
\* build_input_with_special_tokens adds to empty sequences
EncodeSides(side_1, side_2, has_2, max_len, truncation_strategy, stride) ==
    EncodeLengths(
        side_1, side_2, has_2,
        Len(side_1.seq.ids) + Len(side_2.seq.ids)
          + Len(build_input_with_special_tokens(
                    EmptyIds, IF has_2 THEN Some(EmptyIds) ELSE None).token_ids),
        max_len, truncation_strategy, stride)

\* Lines 726-743: the second text, tokenized after the first
EncodeSecond(tokenizer, key_order, side_1, text_2, max_len, truncation_strategy, stride) ==
    EncodeSides(
        side_1,
        IF IsSome(text_2)
        THEN EncodeSide([tokenizer EXCEPT !.cache = side_1.cache], key_order,
                        Unwrap(text_2))
        ELSE [panic |-> FALSE, seq |-> EmptyIds, cache |-> side_1.cache],
        IsSome(text_2), max_len, truncation_strategy, stride)

encode(tokenizer, key_order, text_1, text_2, max_len, truncation_strategy, stride) ==
    EncodeSecond(tokenizer, key_order, EncodeSide(tokenizer, key_order, text_1),
                 text_2, max_len, truncation_strategy, stride)

\* As decode_to_vec, without the filter on skip_special_tokens
decode_to_vec_KeepsSpecial(tokenizer, token_ids, skip_special_tokens) ==
    [i \in 1..Len(token_ids) |-> id_to_token(tokenizer.vocab, token_ids[i])]

\* decode_to_vec (lines 934-948)
decode_to_vec(tokenizer, token_ids, skip_special_tokens) ==
    LET kept == IF skip_special_tokens
                THEN SelectSeq(token_ids,
                               LAMBDA id : id \notin DOMAIN tokenizer.vocab.special_indices)
                ELSE token_ids
    IN  [i \in 1..Len(kept) |-> id_to_token(tokenizer.vocab, kept[i])]

\* str::replace(" ##", "")
RECURSIVE ReplaceSpaceHashHash(_)
ReplaceSpaceHashHash(s) ==
    IF s = << >> THEN << >>
    ELSE IF starts_with(s, << 32, 35, 35 >>)
    THEN ReplaceSpaceHashHash(SubSeq(s, 4, Len(s)))
    ELSE << Head(s) >> \o ReplaceSpaceHashHash(Tail(s))

\* Gpt2Tokenizer::convert_tokens_to_string (gpt2_tokenizer.rs 118-128):
\* None when the unwrap() of a char outside the table panics.
convert_tokens_to_string(tokens) ==
    LET chars == trim(ReplaceSpaceHashHash(Flatten(tokens))) IN
    IF \E i \in 1..Len(chars) : UNICODE_TO_BYTES(chars[i]) = None THEN None
    ELSE Some(from_utf8_lossy([i \in 1..Len(chars) |->
                                  Unwrap(UNICODE_TO_BYTES(chars[i]))]))

\* str::replace(from, to)
RECURSIVE Replace(_, _, _)
Replace(s, from, to) ==
    IF s = << >> THEN << >>
    ELSE IF starts_with(s, from)
    THEN to \o Replace(SubSeq(s, Len(from) + 1, Len(s)), from, to)
    ELSE << Head(s) >> \o Replace(Tail(s), from, to)

\* clean_up_tokenization (lines 1047-1060): the substitutions in order
CleanUpRules ==
    << << << 32, 46 >>, << 46 >> >>,                           \* " ."  "."
       << << 32, 33 >>, << 33 >> >>,                           \* " !"  "!"
       << << 32, 63 >>, << 63 >> >>,                           \* " ?"  "?"
       << << 32, 44 >>, << 44 >> >>,                           \* " ,"  ","
       << << 32, 39, 32 >>, << 39 >> >>,                       \* " ' " "'"
       << << 32, 110, 39, 116 >>, << 110, 39, 116 >> >>,       \* " n't" "n't"
       << << 32, 39, 109 >>, << 39, 109 >> >>,                 \* " 'm" "'m"
       << << 32, 100, 111, 32, 110, 111, 116 >>,
          << 32, 100, 111, 110, 39, 116 >> >>,                 \* " do not" " don't"
       << << 32, 39, 115 >>, << 39, 115 >> >>,                 \* " 's" "'s"
       << << 32, 39, 118, 101 >>, << 39, 118, 101 >> >>,       \* " 've" "'ve"
       << << 32, 39, 114, 101 >>, << 39, 114, 101 >> >> >>     \* " 're" "'re"

RECURSIVE ApplyRules(_, _)
ApplyRules(s, rules) ==
    IF rules = << >> THEN s
    ELSE ApplyRules(Replace(s, Head(rules)[1], Head(rules)[2]), Tail(rules))

clean_up_tokenization(input_string) == ApplyRules(input_string, CleanUpRules)

\* decode (lines 976-989): None when convert_tokens_to_string panics
decode(tokenizer, token_ids, skip_special_tokens, clean_up_tokenization_spaces) ==
    LET decoded_string ==
            convert_tokens_to_string(
                decode_to_vec(tokenizer, token_ids, skip_special_tokens))
    IN  IF decoded_string = None THEN None
        ELSE IF clean_up_tokenization_spaces
        THEN Some(clean_up_tokenization(Unwrap(decoded_string)))
        ELSE decoded_string

\* ------------------------------------------------------------------------
\* ConsolidatedTokenIterator (base_tokenizer.rs 205-266)
\* ------------------------------------------------------------------------
\* ConsolidatedTokenIterator::new (lines 223-229)
ConsolidatedTokenIterator_new(tokens) ==
    [tokens |-> tokens, begin |-> 0, cursor |-> 0]

\* What a call of next leaves: the item returned, the iterator after it,
\* and whether the call panicked (a slice out of the bounds of tokens)
NextOutcome(item, it, p) == [item |-> item, iter |-> it, panic |-> p]

\* &self.tokens[self.begin..self.cursor] (lines 245, 255)
SubTokens(it) ==
    IF it.begin <= it.cursor /\ it.cursor <= Len(it.tokens)
    THEN Some(Slice(it.tokens, it.begin, it.cursor))
    ELSE None

\* As next, splitting only in front of a token whose mask is Begin
RECURSIVE next_SplitsAtBegin(_)
next_SplitsAtBegin(it) ==
    IF it.cursor < Len(it.tokens)
    THEN IF it.tokens[it.cursor + 1].mask = "Begin" /\ it.cursor > it.begin
         THEN NextOutcome(SubTokens(it),
                          [it EXCEPT !.begin = it.cursor, !.cursor = it.cursor + 1],
                          SubTokens(it) = None)
         ELSE next_SplitsAtBegin([it EXCEPT !.cursor = it.cursor + 1])
    ELSE IF it.begin < it.cursor
    THEN NextOutcome(SubTokens(it),
                     [it EXCEPT !.cursor = it.cursor + 1, !.begin = it.cursor + 1],
                     SubTokens(it) = None)
    ELSE NextOutcome(None, it, FALSE)

\* As next, leaving begin and cursor as they are when it returns the
\* remaining buffer
RECURSIVE next_KeepsBuffer(_)
next_KeepsBuffer(it) ==
    IF it.cursor < Len(it.tokens)
    THEN IF it.tokens[it.cursor + 1].mask # "Continuation" /\ it.cursor > it.begin
         THEN NextOutcome(SubTokens(it),
                          [it EXCEPT !.begin = it.cursor, !.cursor = it.cursor + 1],
                          SubTokens(it) = None)
         ELSE next_KeepsBuffer([it EXCEPT !.cursor = it.cursor + 1])
    ELSE IF it.begin < it.cursor
    THEN NextOutcome(SubTokens(it), it, SubTokens(it) = None)
    ELSE NextOutcome(None, it, FALSE)

\* Iterator::next (lines 239-265); a turn of its loop that does not return
\* is the recursive call.
RECURSIVE ConsolidatedTokenIterator_next(_)
ConsolidatedTokenIterator_next(it) ==
    IF it.cursor < Len(it.tokens)                   \* tokens.get(cursor) is Some
    THEN IF it.tokens[it.cursor + 1].mask # "Continuation" /\ it.cursor > it.begin
         THEN NextOutcome(SubTokens(it),
                          [it EXCEPT !.begin = it.cursor, !.cursor = it.cursor + 1],
                          SubTokens(it) = None)
         ELSE ConsolidatedTokenIterator_next([it EXCEPT !.cursor = it.cursor + 1])
    ELSE IF it.begin < it.cursor
    THEN NextOutcome(SubTokens(it),
                     [it EXCEPT !.cursor = it.cursor + 1, !.begin = it.cursor + 1],
                     SubTokens(it) = None)
    ELSE NextOutcome(None, it, FALSE)

\* ========================================================================
\* State
\* ========================================================================
VARIABLES
    \* a call of truncate_sequences, run step by step
    t_pc,          \* "idle", "loop" (in the LongestFirst loop), "returned"
    t_args,        \* the arguments of the call
    t_loop,        \* the local state of the LongestFirst loop
    t_remaining,   \* the iterations of the loop still to run
    t_result       \* Option of the value returned

truncVars == << t_pc, t_args, t_loop, t_remaining, t_result >>

VARIABLES
    \* a tokenizer and the calls of encode and decode on it
    enc_pc,         \* "ready", "encoded", "decoded"
    enc_tokenizer,  \* the Gpt2Tokenizer (its cache grows with the calls)
    enc_args,       \* the arguments of the encode call
    enc_result,     \* Option of what encode returned (or its panic)
    dec_args,       \* the flags of the decode call
    dec_result      \* Option of what decode returned (or its panic)

encVars == << enc_pc, enc_tokenizer, enc_args, enc_result, dec_args, dec_result >>

VARIABLES
    \* the canister (lib.rs, upload.rs)
    WASM_REF_CELL,  \* the upload buffer, a Vec<u8>
    VOCAB_STR,      \* Option<String>
    MERGES_STR,     \* Option<String>
    TOKENIZER,      \* Option<Gpt2Tokenizer>
    reply,          \* the last call and what it returned
    uploaded,       \* history: the chunks appended since WASM_REF_CELL was
                    \* last emptied, each with the file ("vocab" or
                    \* "merges") the caller uploaded it for
    initialized     \* history: whether initialize_tokenizer ever succeeded

canisterVars ==
    << WASM_REF_CELL, VOCAB_STR, MERGES_STR, TOKENIZER, reply, uploaded,
       initialized >>

VARIABLES
    \* a vocabulary and the calls on it (base_vocab.rs, gpt2_vocab.rs)
    vocab_state,    \* Option of the Gpt2Vocab
    vocab_call      \* the last call on it and what it returned

vocabVars == << vocab_state, vocab_call >>

VARIABLES
    \* concurrent callers of split_on_bpe_pairs on one tokenizer
    cache,          \* the content of the BpeCache
    readers,        \* the callers holding the read lock
    writer,         \* Option of the caller holding the write lock
    pc,             \* per caller: its position in split_on_bpe_pairs
    call_token,     \* per caller: the pre-token it was called with
    attempts,       \* per caller, history: the outcome of its try_read and
                    \* of its try_write
    bpe_output,     \* per caller: the local (bpe_output, char_counts)
    returned        \* per caller: Option of the tokens returned

bpeVars ==
    << cache, readers, writer, pc, call_token, attempts, bpe_output, returned >>

VARIABLES
    \* a ConsolidatedTokenIterator and the calls of next on it
    iter,           \* the iterator: tokens, begin, cursor
    iter_items,     \* history: what each call of next returned, in order
    iter_panic      \* whether a call of next panicked

iterVars == << iter, iter_items, iter_panic >>

VARIABLES
    \* a call of bpe, run round by round
    merge_pc,       \* "idle", "loop" (in the loop of bpe), "returned"
    merge_ranks,    \* the BpePairVocab of the call
    merge_token,    \* the string of the call
    merge_output,   \* the local `output` of bpe: (symbols, done)
    merge_rounds,   \* history: the calls of group_common_pairs so far
    merge_result    \* Option of the (pieces, char counts) returned

mergeVars ==
    << merge_pc, merge_ranks, merge_token, merge_output, merge_rounds, merge_result >>

VARIABLES
    \* a call of one of the functions that turn a text into tokens
    util_call       \* the call, its arguments and what it returned

utilVars == << util_call >>

vars ==
    << truncVars, encVars, canisterVars, vocabVars, bpeVars, iterVars, mergeVars,
       utilVars >>

otherThanTrunc ==
    << encVars, canisterVars, vocabVars, bpeVars, iterVars, mergeVars, utilVars >>

otherThanEncode ==
    << truncVars, canisterVars, vocabVars, bpeVars, iterVars, mergeVars, utilVars >>

otherThanCanister ==
    << truncVars, encVars, vocabVars, bpeVars, iterVars, mergeVars, utilVars >>

otherThanVocab ==
    << truncVars, encVars, canisterVars, bpeVars, iterVars, mergeVars, utilVars >>

otherThanBpe ==
    << truncVars, encVars, canisterVars, vocabVars, iterVars, mergeVars, utilVars >>

otherThanIter ==
    << truncVars, encVars, canisterVars, vocabVars, bpeVars, mergeVars, utilVars >>

otherThanMerge ==
    << truncVars, encVars, canisterVars, vocabVars, bpeVars, iterVars, utilVars >>

otherThanUtil ==
    << truncVars, encVars, canisterVars, vocabVars, bpeVars, iterVars, mergeVars >>

\* The parts of the state a specification does not use stay as they are here.
IdleMerge ==
    /\ merge_pc = "idle"
    /\ merge_ranks = << >>
    /\ merge_token = << >>
    /\ merge_output = << >>
    /\ merge_rounds = 0
    /\ merge_result = << >>

IdleUtil == util_call = [call |-> "none"]

IdleIter ==
    /\ iter = ConsolidatedTokenIterator_new(<< >>)
    /\ iter_items = << >>
    /\ iter_panic = FALSE

IdleEncodeCalls ==
    /\ enc_pc = "ready"
    /\ enc_args = << >>
    /\ enc_result = << >>
    /\ dec_args = << >>
    /\ dec_result = << >>

IdleEncode == IdleEncodeCalls /\ enc_tokenizer = << >>

IdleCanister ==
    /\ WASM_REF_CELL = << >>
    /\ VOCAB_STR = << >>
    /\ MERGES_STR = << >>
    /\ TOKENIZER = << >>
    /\ reply = [call |-> "none"]
    /\ uploaded = << >>
    /\ initialized = FALSE

IdleVocab == vocab_state = << >> /\ vocab_call = [call |-> "none"]

IdleBpe ==
    /\ cache = << >>
    /\ readers = {}
    /\ writer = << >>
    /\ pc = << >>
    /\ call_token = << >>
    /\ attempts = << >>
    /\ bpe_output = << >>
    /\ returned = << >>

\* ========================================================================
\* truncate_sequences, step by step
\* ========================================================================
\* Bounds of the calls explored
MaxSeqLen == 3

MaxRemove == 4

MaxStride == 2

\* A sequence of len tokens whose ids are base + 1 .. base + len; offsets,
\* reference offsets and masks are per token, or empty when not used.
MakeSeq(base, len, has_offsets, has_refs, has_masks) ==
    TokenIdsWithOffsets(
        [i \in 1..len |-> base + i],
        IF has_offsets THEN [i \in 1..len |-> Some(Offset(i - 1, i))] ELSE << >>,
        IF has_refs THEN [i \in 1..len |-> << i - 1 >>] ELSE << >>,
        IF has_masks THEN [i \in 1..len |-> "None"] ELSE << >>)

FirstSequences ==
    { MakeSeq(100, len, o, r, m) : len \in 0..MaxSeqLen, o \in BOOLEAN,
                                   r \in BOOLEAN, m \in BOOLEAN }

SecondSequences ==
    { MakeSeq(200, len, o, r, m) : len \in 0..MaxSeqLen, o \in BOOLEAN,
                                   r \in BOOLEAN, m \in BOOLEAN }

TruncArgs(s1, s2, n, strategy, stride) ==
    [seq1 |-> s1, seq2 |-> s2, num_tokens_to_remove |-> n,
     truncation_strategy |-> strategy, stride |-> stride]

NoArgs == TruncArgs(EmptyIds, None, 0, "DoNotTruncate", 0)

NoLoop == LoopState(EmptyIds, EmptyIds, << >>, << >>, FALSE)

IdleTrunc ==
    /\ t_pc = "idle"
    /\ t_args = NoArgs
    /\ t_loop = NoLoop
    /\ t_remaining = 0
    /\ t_result = None

\* Whether the call enters the LongestFirst loop over a pair (lines 246-258)
EntersLoop(a) ==
    /\ a.num_tokens_to_remove > 0
    /\ IsSome(a.seq2)
    /\ a.truncation_strategy = "LongestFirst"
    /\ Len(a.seq1.ids) + Len(Unwrap(a.seq2).ids) >= a.num_tokens_to_remove

\* The call: every branch but the LongestFirst loop returns at once.
TruncateCall ==
    /\ t_pc = "idle"
    /\ \E s1 \in FirstSequences, s2 \in {None} \cup { Some(s) : s \in SecondSequences },
          n \in 0..MaxRemove, strategy \in TruncationStrategy, stride \in 0..MaxStride :
          LET a == TruncArgs(s1, s2, n, strategy, stride) IN
          /\ t_args' = a
          /\ UNCHANGED otherThanTrunc
          /\ IF EntersLoop(a)
             THEN /\ t_pc' = "loop"
                  /\ t_loop' = LoopState(s1, Unwrap(s2), << >>, << >>, FALSE)
                  /\ t_remaining' = n
                  /\ t_result' = None
             ELSE /\ t_pc' = "returned"
                  /\ t_loop' = NoLoop
                  /\ t_remaining' = 0
                  /\ t_result' = Some(truncate_sequences(s1, s2, n, strategy, stride))

\* One iteration of the loop at lines 263-290
LongestFirstStep ==
    /\ t_pc = "loop"
    /\ t_remaining > 0
    /\ ~t_loop.panic
    /\ t_loop' = LongestFirstIteration(t_loop)
    /\ t_remaining' = t_remaining - 1
    /\ UNCHANGED << t_pc, t_args, t_result, otherThanTrunc >>

\* After the loop: the stride window and the return (lines 291-307)
LongestFirstReturn ==
    /\ t_pc = "loop"
    /\ (t_remaining = 0 \/ t_loop.panic)
    /\ t_result' = Some(LongestFirstWindow(t_loop, t_args.stride))
    /\ t_pc' = "returned"
    /\ UNCHANGED << t_args, t_loop, t_remaining, otherThanTrunc >>

\* The caller drops the result; another call may follow.
TruncateDone ==
    /\ t_pc = "returned"
    /\ t_pc' = "idle"
    /\ t_args' = NoArgs
    /\ t_loop' = NoLoop
    /\ t_remaining' = 0
    /\ t_result' = None
    /\ UNCHANGED otherThanTrunc

InitTruncate ==
    /\ IdleTrunc
    /\ IdleIter
    /\ IdleEncode
    /\ IdleCanister
    /\ IdleVocab
    /\ IdleMerge
    /\ IdleUtil
    /\ IdleBpe

NextTruncate ==
    \/ TruncateCall
    \/ LongestFirstStep
    \/ LongestFirstReturn
    \/ TruncateDone

SpecTruncate == InitTruncate /\ [][NextTruncate]_vars

\* The value returned by the steps is the value of truncate_sequences.
StepsAgreeWithTruncateSequences ==
    t_pc = "returned" =>
        Unwrap(t_result) =
            truncate_sequences(t_args.seq1, t_args.seq2, t_args.num_tokens_to_remove,
                               t_args.truncation_strategy, t_args.stride)

\* ------------------------------------------------------------------------
\* C20
\* ------------------------------------------------------------------------
\* The number of tokens of the second sequence of the call, 0 without one
SecondLen == IF IsSome(t_args.seq2) THEN Len(Unwrap(t_args.seq2).ids) ELSE 0

\* The cases in which the call is to fail
TruncationMustFail ==
    /\ t_args.num_tokens_to_remove > 0
    /\ \/ t_args.truncation_strategy = "DoNotTruncate"
       \/ /\ t_args.truncation_strategy = "OnlySecond"
          /\ t_args.seq2 = None
       \/ /\ t_args.truncation_strategy = "OnlyFirst"
          /\ Len(t_args.seq1.ids) < t_args.num_tokens_to_remove
       \/ /\ t_args.truncation_strategy = "OnlySecond"
          /\ t_args.seq2 # None
          /\ SecondLen < t_args.num_tokens_to_remove
       \/ /\ t_args.truncation_strategy = "LongestFirst"
          /\ Len(t_args.seq1.ids) + SecondLen < t_args.num_tokens_to_remove

\* C20: truncate_sequences returns a ValueError exactly when
\* num_tokens_to_remove > 0 and the strategy is DoNotTruncate, or it is
\* OnlySecond without a second sequence, or the sequence OnlyFirst or
\* OnlySecond names has fewer than num_tokens_to_remove tokens, or, for
\* LongestFirst, the combined length is less than num_tokens_to_remove; in
\* every other case it returns Ok, and it never panics.
C20_ValueErrorExactlyWhen ==
    (t_pc = "returned") =>
        /\ Unwrap(t_result).kind \in {"Ok", "ValueError"}
        /\ (Unwrap(t_result).kind = "ValueError") <=> TruncationMustFail

\* A call for a pair under OnlySecond failed: the second sequence is shorter
\* than num_tokens_to_remove, the first one is not.
C20_Witness ==
    /\ t_pc = "returned"
    /\ Unwrap(t_result).kind = "ValueError"
    /\ t_args.truncation_strategy = "OnlySecond"
    /\ t_args.seq2 # None
    /\ SecondLen < t_args.num_tokens_to_remove
    /\ Len(t_args.seq1.ids) >= t_args.num_tokens_to_remove

\* ------------------------------------------------------------------------
\* C21
\* ------------------------------------------------------------------------
\* The sequence s without its last r entries: ids and every vector in use
DropLast(s, r) ==
    TokenIdsWithOffsets(
        Truncate(s.ids, Len(s.ids) - r),
        Truncate(s.offsets, Len(s.ids) - r),
        Truncate(s.reference_offsets, Len(s.ids) - r),
        Truncate(s.masks, Len(s.ids) - r))

\* The call names sequence 1 (OnlyFirst) or sequence 2 (OnlySecond), which
\* has at least num_tokens_to_remove > 0 tokens
IsOnlyFirstCall ==
    /\ t_pc = "returned"
    /\ t_args.truncation_strategy = "OnlyFirst"
    /\ t_args.num_tokens_to_remove > 0
    /\ t_args.num_tokens_to_remove <= Len(t_args.seq1.ids)

IsOnlySecondCall ==
    /\ t_pc = "returned"
    /\ t_args.truncation_strategy = "OnlySecond"
    /\ t_args.seq2 # None
    /\ t_args.num_tokens_to_remove > 0
    /\ t_args.num_tokens_to_remove <= SecondLen

\* C21: with OnlyFirst (OnlySecond) and 0 < num_tokens_to_remove <= the
\* length of the named sequence, truncate_sequences returns the named
\* sequence without its last num_tokens_to_remove entries, in ids, offsets,
\* reference offsets and masks alike, and the other sequence unchanged.
C21_RemovesTailOfNamedOnly ==
    /\ IsOnlyFirstCall =>
          /\ Unwrap(t_result).kind = "Ok"
          /\ Unwrap(t_result).seq1 = DropLast(t_args.seq1, t_args.num_tokens_to_remove)
          /\ Unwrap(t_result).seq2 = t_args.seq2
    /\ IsOnlySecondCall =>
          /\ Unwrap(t_result).kind = "Ok"
          /\ Unwrap(t_result).seq1 = t_args.seq1
          /\ Unwrap(t_result).seq2 =
                Some(DropLast(Unwrap(t_args.seq2), t_args.num_tokens_to_remove))

\* The named sequence carries masks whenever it carries reference offsets
NamedHasMasks ==
    /\ IsOnlyFirstCall =>
          (t_args.seq1.reference_offsets # << >> => t_args.seq1.masks # << >>)
    /\ IsOnlySecondCall =>
          (Unwrap(t_args.seq2).reference_offsets # << >>
              => Unwrap(t_args.seq2).masks # << >>)

\* The same for the calls whose named sequence has masks next to its
\* reference offsets, as every sequence encode passes has
C21_WithMasks == NamedHasMasks => C21_RemovesTailOfNamedOnly

\* ------------------------------------------------------------------------
\* C22
\* ------------------------------------------------------------------------
\* A call that had tokens to remove has returned Ok
RemovedSome ==
    /\ t_pc = "returned"
    /\ t_args.num_tokens_to_remove > 0
    /\ Unwrap(t_result).kind = "Ok"

\* The ids of the call's second sequence and of the second sequence returned
SecondIdsIn == IF t_args.seq2 # None THEN Unwrap(t_args.seq2).ids ELSE << >>

SecondIdsOut ==
    IF Unwrap(t_result).seq2 # None THEN Unwrap(Unwrap(t_result).seq2).ids ELSE << >>

\* The ids each sequence has lost, in the order they had in it
Removed1 ==
    SubSeq(t_args.seq1.ids, Len(Unwrap(t_result).seq1.ids) + 1, Len(t_args.seq1.ids))

Removed2 == SubSeq(SecondIdsIn, Len(SecondIdsOut) + 1, Len(SecondIdsIn))

\* The ids of the sequence the stride window is copied from: the second
\* sequence for OnlySecond, the first one otherwise
RetainedIds ==
    IF t_args.truncation_strategy = "OnlySecond" THEN SecondIdsOut
    ELSE Unwrap(t_result).seq1.ids

\* The last min(stride, length) ids of the retained sequence
StrideWindow ==
    SubSeq(RetainedIds, Len(RetainedIds) - Min(t_args.stride, Len(RetainedIds)) + 1,
           Len(RetainedIds))

\* C22: when truncation removes r > 0 tokens with stride s, what the
\* sequences keep is what they began with (the copied tokens still in
\* place), r tokens are gone from their ends, and the overflow buffer is
\* the last min(s, length) tokens of the retained sequence (the first one
\* for LongestFirst on a pair) followed by the r removed tokens in the
\* order they had in the input, the two sequences taken one after the other.
C22_WindowThenRemoved ==
    RemovedSome =>
        /\ Unwrap(t_result).seq1.ids
              = Truncate(t_args.seq1.ids, Len(Unwrap(t_result).seq1.ids))
        /\ SecondIdsOut = Truncate(SecondIdsIn, Len(SecondIdsOut))
        /\ Len(Removed1) + Len(Removed2) = t_args.num_tokens_to_remove
        /\ Unwrap(t_result).overflow_tokens
              \in { StrideWindow \o Removed1 \o Removed2,
                    StrideWindow \o Removed2 \o Removed1 }

\* The same for the calls that removed tokens from one sequence only
C22_OneSided ==
    RemovedSome => ((Removed1 = << >> \/ Removed2 = << >>) => C22_WindowThenRemoved)

\* ------------------------------------------------------------------------
\* C23
\* ------------------------------------------------------------------------
\* C23: with LongestFirst on a pair of sequences, the overflowing tokens
\* truncate_sequences returns are tokens of the first sequence only.
C23_OverflowFromFirstOnly ==
    (/\ t_pc = "returned"
     /\ t_args.truncation_strategy = "LongestFirst"
     /\ t_args.seq2 # None
     /\ Unwrap(t_result).kind = "Ok") =>
        Range(Unwrap(t_result).overflow_tokens) \subseteq Range(t_args.seq1.ids)

\* ------------------------------------------------------------------------
\* C2
\* ------------------------------------------------------------------------
\* A step of the LongestFirst loop that popped a token
IsPopStep == t_pc = "loop" /\ t_remaining' = t_remaining - 1 /\ ~t_loop'.panic

\* The step popped the last token of sequence 1 in front of the overflow.
PoppedFirst ==
    /\ t_loop'.seq1.ids = Front(t_loop.seq1.ids)
    /\ t_loop'.seq2 = t_loop.seq2
    /\ t_loop'.overflow_tokens = << Last(t_loop.seq1.ids) >> \o t_loop.overflow_tokens

\* The step popped the last token of sequence 2 in front of the overflow.
PoppedSecond ==
    /\ t_loop'.seq2.ids = Front(t_loop.seq2.ids)
    /\ t_loop'.seq1 = t_loop.seq1
    /\ t_loop'.overflow_tokens = << Last(t_loop.seq2.ids) >> \o t_loop.overflow_tokens

\* C2 as stated: with a second sequence and LongestFirst, each step of the
\* loop pops the last token of the currently longer sequence, and when the
\* two sequences have equal length the token is popped from sequence 2.
C2_TieBreakSecond ==
    [][IsPopStep =>
        /\ (Len(t_loop.seq1.ids) > Len(t_loop.seq2.ids) => PoppedFirst)
        /\ (Len(t_loop.seq1.ids) < Len(t_loop.seq2.ids) => PoppedSecond)
        /\ (Len(t_loop.seq1.ids) = Len(t_loop.seq2.ids) => PoppedSecond)]_vars

\* C2 as amended: each step of the loop pops the last token of the currently
\* longer sequence, and when the two sequences have equal length the token
\* is popped from sequence 1.
C2_TieBreakFirst ==
    [][IsPopStep =>
        /\ (Len(t_loop.seq1.ids) > Len(t_loop.seq2.ids) => PoppedFirst)
        /\ (Len(t_loop.seq1.ids) < Len(t_loop.seq2.ids) => PoppedSecond)
        /\ (Len(t_loop.seq1.ids) = Len(t_loop.seq2.ids) => PoppedFirst)]_vars

\* A pop at equal lengths has happened: sequence 1 is now one shorter than
\* sequence 2 and the token in front of the overflow is the one it lost.
C2_Witness ==
    /\ t_pc = "loop"
    /\ t_loop.overflow_tokens # << >>
    /\ Len(t_loop.seq1.ids) + 1 = Len(t_loop.seq2.ids)
    /\ Head(t_loop.overflow_tokens) = 100 + Len(t_loop.seq1.ids) + 1

\* ========================================================================
\* encode and decode on a tokenizer
\* ========================================================================
\* The texts explored: up to MaxPieces pieces, each one of
\* "a", "b", "A", " ", "é" (two bytes in UTF-8) and "<|endoftext|>".
MaxPieces == 2

MaxLenArg == 2

MaxStrideArg == 1

TextPieces ==
    { << 97 >>, << 98 >>, << 65 >>, << 32 >>, << 233 >>, DEFAULT_UNK_TOKEN }

RECURSIVE TextsOf(_)
TextsOf(n) ==
    IF n = 0 THEN { << >> }
    ELSE LET shorter == TextsOf(n - 1) IN
         shorter \cup { t \o p : t \in shorter, p \in TextPieces }

Texts == TextsOf(MaxPieces)

\* "a b" as the second text of a pair
SecondTexts == { << 97, 32, 98 >> }

\* JSON text of a vocabulary: {"key":id,...} for the (key, id) pairs given
Quoted(s) == << 34 >> \o s \o << 34 >>

RECURSIVE JsonMembersText(_)
JsonMembersText(entries) ==
    IF entries = << >> THEN << >>
    ELSE Quoted(Head(entries)[1]) \o << 58 >> \o FormatDecimal(Head(entries)[2])
         \o (IF Len(entries) > 1 THEN << 44 >> ELSE << >>)
         \o JsonMembersText(Tail(entries))

JsonText(entries) == << 123 >> \o JsonMembersText(entries) \o << 125 >>

\* {"a":0,"b":1,"ab":2,"<|endoftext|>":3}
SmallVocabText ==
    JsonText(<< << << 97 >>, 0 >>, << << 98 >>, 1 >>, << << 97, 98 >>, 2 >>,
                << DEFAULT_UNK_TOKEN, 3 >> >>)

\* A vocabulary that holds every byte-level symbol of the texts explored:
\* "a", "b", "A", "Ġ" (the space), "Ã" and "©" (the bytes of "é"), and the
\* merged pieces "ab" and "Ġb".
ByteVocabText ==
    JsonText(<< << << 97 >>, 0 >>, << << 98 >>, 1 >>, << << 97, 98 >>, 2 >>,
                << DEFAULT_UNK_TOKEN, 3 >>, << << 65 >>, 4 >>, << << 288 >>, 5 >>,
                << << 195 >>, 6 >>, << << 169 >>, 7 >>, << << 288, 98 >>, 8 >> >>)

\* "#version\na b\nĠ b\n"
SmallMergesText ==
    << 35, 118, 101, 114, 115, 105, 111, 110, 10, 97, 32, 98, 10, 288, 32, 98, 10 >>

\* The tokenizers built from these texts: the small vocabulary keeping the
\* case, the byte vocabulary with either case setting
FreshTokenizers ==
    { from_existing_vocab_and_merges(v, BpePairVocab_from_cache(SmallMergesText), FALSE) :
        v \in Gpt2Vocab_from_cache(SmallVocabText) }
    \cup { from_existing_vocab_and_merges(v, BpePairVocab_from_cache(SmallMergesText), lc) :
             v \in Gpt2Vocab_from_cache(ByteVocabText), lc \in BOOLEAN }

\* " b b": its second pre-token is read from the cache
WarmTexts == { << 32, 98, 32, 98 >> }

\* A tokenizer as it is before a call: fresh, or (one that keeps the case)
\* after earlier calls that filled its cache.
Tokenizers ==
    FreshTokenizers
    \cup UNION { { [t EXCEPT !.cache = tokenize_with_offsets(t, o, w).cache] :
                      o \in KeyOrders(t.vocab), w \in WarmTexts } :
                    t \in { f \in FreshTokenizers :
                              ~f.lower_case /\ << 288 >> \in DOMAIN f.vocab.values } }

EncodeArgs(ko, t1, t2, ml, st, sd) ==
    [key_order |-> ko, text_1 |-> t1, text_2 |-> t2, max_len |-> ml,
     truncation_strategy |-> st, stride |-> sd]

InitEncode ==
    /\ IdleTrunc
    /\ IdleIter
    /\ IdleCanister
    /\ IdleVocab
    /\ IdleMerge
    /\ IdleUtil
    /\ IdleBpe
    /\ IdleEncodeCalls
    /\ enc_tokenizer \in Tokenizers

\* A call of encode (base_tokenizer.rs 709-795)
Encode ==
    /\ enc_pc = "ready"
    /\ \E ko \in KeyOrders(enc_tokenizer.vocab), t1 \in Texts,
          t2 \in {None} \cup { Some(t) : t \in SecondTexts },
          ml \in 0..MaxLenArg, st \in TruncationStrategy, sd \in 0..MaxStrideArg :
          LET r == encode(enc_tokenizer, ko, t1, t2, ml, st, sd) IN
          /\ enc_args' = Some(EncodeArgs(ko, t1, t2, ml, st, sd))
          /\ enc_result' = Some(r)
          /\ enc_tokenizer' = [enc_tokenizer EXCEPT !.cache = r.cache]
    /\ enc_pc' = "encoded"
    /\ UNCHANGED << dec_args, dec_result, otherThanEncode >>

\* A call of decode (base_tokenizer.rs 976-989) on the ids encode returned
Decode ==
    /\ enc_pc = "encoded"
    /\ ~Unwrap(enc_result).panic
    /\ \E skip \in BOOLEAN, clean \in BOOLEAN :
          /\ dec_args' = Some([skip_special_tokens |-> skip,
                               clean_up_tokenization_spaces |-> clean])
          /\ dec_result' = Some(decode(enc_tokenizer,
                                       Unwrap(enc_result).input.token_ids,
                                       skip, clean))
    /\ enc_pc' = "decoded"
    /\ UNCHANGED << enc_tokenizer, enc_args, enc_result, otherThanEncode >>

NextEncode == Encode \/ Decode

SpecEncode == InitEncode /\ [][NextEncode]_vars

\* ------------------------------------------------------------------------
\* C1
\* ------------------------------------------------------------------------
\* The call made was encode(text, None, max_len, LongestFirst, 0).
IsSingleLongestFirst ==
    /\ enc_pc \in {"encoded", "decoded"}
    /\ Unwrap(enc_args).text_2 = None
    /\ Unwrap(enc_args).truncation_strategy = "LongestFirst"
    /\ Unwrap(enc_args).stride = 0

\* The number of token ids the text gives before any truncation
PreTruncationLen ==
    Len(tokenize_with_offsets(enc_tokenizer, Unwrap(enc_args).key_order,
                              Unwrap(enc_args).text_1).out.tokens)

\* C1: encode(text, None, max_len, LongestFirst, 0) returns (it does not
\* panic) at most max_len token ids, and num_truncated_tokens plus their
\* number is the number of ids the text gives before truncation.
C1_EncodeWithinMaxLen ==
    IsSingleLongestFirst =>
        /\ ~Unwrap(enc_result).panic
        /\ Len(Unwrap(enc_result).input.token_ids) <= Unwrap(enc_args).max_len
        /\ Unwrap(enc_result).input.num_truncated_tokens
             + Len(Unwrap(enc_result).input.token_ids) = PreTruncationLen

\* A call that had to truncate: the text gave more ids than max_len.
C1_Witness ==
    /\ IsSingleLongestFirst
    /\ ~Unwrap(enc_result).panic
    /\ Unwrap(enc_result).input.num_truncated_tokens > 0
    /\ Len(Unwrap(enc_result).input.token_ids) = Unwrap(enc_args).max_len
    /\ Unwrap(enc_args).max_len > 0

\* ------------------------------------------------------------------------
\* C8
\* ------------------------------------------------------------------------
\* encode(text, None, ..) returned without truncating, and decode was then
\* called on its ids with skip_special_tokens and
\* clean_up_tokenization_spaces both false.
IsPlainRoundTrip ==
    /\ enc_pc = "decoded"
    /\ Unwrap(enc_args).text_2 = None
    /\ Unwrap(enc_result).input.num_truncated_tokens = 0
    /\ ~Unwrap(dec_args).skip_special_tokens
    /\ ~Unwrap(dec_args).clean_up_tokenization_spaces

\* decode returned the text that was encoded, byte for byte.
DecodedIsText ==
    /\ Unwrap(dec_result) # None
    /\ Utf8Bytes(Unwrap(Unwrap(dec_result))) = Utf8Bytes(Unwrap(enc_args).text_1)

\* Every token the text gives is an entry of the vocabulary, so that no id
\* is the unknown id by fallback.
AllTokensInVocab ==
    LET tokens == tokenize_with_offsets(enc_tokenizer, Unwrap(enc_args).key_order,
                                        Unwrap(enc_args).text_1).out.tokens
    IN  \A i \in 1..Len(tokens) : tokens[i] \in DOMAIN enc_tokenizer.vocab.values

\* The inputs for which the round trip is meant: the tokenizer keeps the
\* case, the text is not whitespace-only (tokenize_with_offsets returns the
\* empty result for such a text) and the vocabulary holds every token of the
\* text.
IsRoundTripInput ==
    /\ ~enc_tokenizer.lower_case
    /\ trim(Unwrap(enc_args).text_1) # << >>
    /\ AllTokensInVocab

\* C8: for every text whose encoding is not truncated,
\* decode(encode(text).token_ids, false, false) is the text, byte for byte.
\* The claim is stated here for the inputs of IsRoundTripInput only; it
\* fails for them too.
C8_RoundTrip == (IsPlainRoundTrip /\ IsRoundTripInput) => DecodedIsText

\* ------------------------------------------------------------------------
\* C18
\* ------------------------------------------------------------------------
\* encode has returned a TokenizedInput
EncodeReturned ==
    /\ enc_pc \in {"encoded", "decoded"}
    /\ ~Unwrap(enc_result).panic

\* C18: in every TokenizedInput encode returns, for a single text or a
\* pair, every strategy, max_len and stride, segment_ids,
\* special_tokens_mask, token_offsets, reference_offsets and mask each have
\* the length of token_ids.
C18_PerTokenVectorsAligned ==
    EncodeReturned =>
        /\ Len(Unwrap(enc_result).input.segment_ids)
              = Len(Unwrap(enc_result).input.token_ids)
        /\ Len(Unwrap(enc_result).input.special_tokens_mask)
              = Len(Unwrap(enc_result).input.token_ids)
        /\ Len(Unwrap(enc_result).input.token_offsets)
              = Len(Unwrap(enc_result).input.token_ids)
        /\ Len(Unwrap(enc_result).input.reference_offsets)
              = Len(Unwrap(enc_result).input.token_ids)
        /\ Len(Unwrap(enc_result).input.mask)
              = Len(Unwrap(enc_result).input.token_ids)

\* A pair was truncated, with a stride, and tokens of both texts are left.
C18_Witness ==
    /\ EncodeReturned
    /\ Unwrap(enc_args).text_2 # None
    /\ Unwrap(enc_args).stride > 0
    /\ Unwrap(enc_result).input.num_truncated_tokens > 0
    /\ \E i, j \in 1..Len(Unwrap(enc_result).input.segment_ids) :
          /\ Unwrap(enc_result).input.segment_ids[i] = 0
          /\ Unwrap(enc_result).input.segment_ids[j] = 1

\* ------------------------------------------------------------------------
\* C19
\* ------------------------------------------------------------------------
\* C19: in every TokenizedInput encode returns, for every max_len, strategy
\* and stride, num_truncated_tokens is the length of overflowing_tokens.
C19_TruncatedCountIsOverflowLen ==
    EncodeReturned =>
        Unwrap(enc_result).input.num_truncated_tokens
           = Len(Unwrap(enc_result).input.overflowing_tokens)

\* ========================================================================
\* decode and decode_to_vec on any list of ids (base_tokenizer.rs 934-989)
\* ========================================================================
\* The lists of ids decoded hold at most MaxIds ids.
MaxIds == 2

\* {"中":0,"<|endoftext|>":1}: a token string with a char (U+4E2D) that is
\* not one of the 256 chars of the byte-level table
WideVocabText ==
    JsonText(<< << << 20013 >>, 0 >>, << DEFAULT_UNK_TOKEN, 1 >> >>)

\* The tokenizers decoded with: those of the encode calls, and the one of
\* the vocabulary above
DecodeTokenizers ==
    FreshTokenizers
    \cup { from_existing_vocab_and_merges(v, BpePairVocab_from_cache(SmallMergesText), FALSE) :
             v \in Gpt2Vocab_from_cache(WideVocabText) }

\* The ids of the vocabulary and two ids that neither id map holds
ExploredIds(vocab) ==
    DOMAIN vocab.indices \cup { -1, Cardinality(DOMAIN vocab.values) }

RECURSIVE IdLists(_, _)
IdLists(ids, n) ==
    IF n = 0 THEN { << >> }
    ELSE LET shorter == IdLists(ids, n - 1) IN
         shorter \cup { Append(l, id) : l \in shorter, id \in ids }

DecodeArgs(token_ids, skip, clean) ==
    [token_ids |-> token_ids, skip_special_tokens |-> skip,
     clean_up_tokenization_spaces |-> clean]

InitDecode ==
    /\ IdleTrunc
    /\ IdleIter
    /\ IdleCanister
    /\ IdleVocab
    /\ IdleMerge
    /\ IdleUtil
    /\ IdleBpe
    /\ IdleEncodeCalls
    /\ enc_tokenizer \in DecodeTokenizers

\* A call of decode (base_tokenizer.rs 976-989) on a list of ids
DecodeIds ==
    /\ enc_pc = "ready"
    /\ \E token_ids \in IdLists(ExploredIds(enc_tokenizer.vocab), MaxIds),
          skip \in BOOLEAN, clean \in BOOLEAN :
          /\ dec_args' = Some(DecodeArgs(token_ids, skip, clean))
          /\ dec_result' = Some(decode(enc_tokenizer, token_ids, skip, clean))
    /\ enc_pc' = "ids_decoded"
    /\ UNCHANGED << enc_tokenizer, enc_args, enc_result, otherThanEncode >>

\* A call of decode_to_vec (base_tokenizer.rs 934-948) on the ids encode
\* returned
DecodeToVec ==
    /\ enc_pc = "encoded"
    /\ ~Unwrap(enc_result).panic
    /\ \E skip \in BOOLEAN :
          /\ dec_args' = Some(DecodeArgs(Unwrap(enc_result).input.token_ids,
                                         skip, FALSE))
          /\ dec_result' = Some(decode_to_vec(enc_tokenizer,
                                              Unwrap(enc_result).input.token_ids,
                                              skip))
    /\ enc_pc' = "vec_decoded"
    /\ UNCHANGED << enc_tokenizer, enc_args, enc_result, otherThanEncode >>

NextDecode ==
    \/ Encode
    \/ DecodeToVec
    \/ DecodeIds

SpecDecode == InitDecode /\ [][NextDecode]_vars

\* ------------------------------------------------------------------------
\* C13
\* ------------------------------------------------------------------------
\* The ids decoded are in neither id map.
AllIdsAbsent ==
    \A i \in 1..Len(Unwrap(dec_args).token_ids) :
        /\ Unwrap(dec_args).token_ids[i] \notin DOMAIN enc_tokenizer.vocab.indices
        /\ Unwrap(dec_args).token_ids[i]
              \notin DOMAIN enc_tokenizer.vocab.special_indices

\* The unknown-token string, once per id decoded
UnknownStrings ==
    Flatten([i \in 1..Len(Unwrap(dec_args).token_ids) |->
                get_unknown_value(enc_tokenizer.vocab)])

\* C13: decode(ids, skip_special, clean_spaces) returns a string, it never
\* fails, for every list of ids and every constructed vocabulary; ids that
\* neither id map holds render as the unknown-token string.
C13_DecodeNeverFails ==
    (enc_pc = "ids_decoded") =>
        /\ Unwrap(dec_result) # None
        /\ (AllIdsAbsent /\ ~Unwrap(dec_args).clean_up_tokenization_spaces) =>
              Unwrap(dec_result) = Some(UnknownStrings)

\* ------------------------------------------------------------------------
\* C16
\* ------------------------------------------------------------------------
\* The tokenizer's vocabulary is {"a":0,"b":1,"ab":2,"<|endoftext|>":3} and
\* the text "<|endoftext|>" was encoded alone, with room for one token.
IsC16Call ==
    /\ enc_pc \in {"encoded", "vec_decoded"}
    /\ enc_tokenizer.vocab.values = read_json_string(SmallVocabText).values
    /\ Unwrap(enc_args).text_1 = DEFAULT_UNK_TOKEN
    /\ Unwrap(enc_args).text_2 = None
    /\ Unwrap(enc_args).max_len >= 1

\* decode_to_vec was called on the ids with skip_special_tokens = true
IsSkippingDecodeToVec ==
    /\ enc_pc = "vec_decoded"
    /\ Unwrap(dec_args).skip_special_tokens

\* C16: with this vocabulary the text "<|endoftext|>" gives exactly one
\* token, whose mask is Special and whose id is 3, and
\* decode_to_vec([3], true) returns the empty list.
C16_OneSpecialToken ==
    IsC16Call =>
        /\ ~Unwrap(enc_result).panic
        /\ Unwrap(enc_result).input.token_ids = << 3 >>
        /\ Unwrap(enc_result).input.mask = << "Special" >>
        /\ IsSkippingDecodeToVec => Unwrap(dec_result) = << >>

\* C16 as amended: the text gives exactly one token, whose mask is Unknown
\* ("<|endoftext|>" is the unknown token of the GPT2 vocabulary) and whose
\* id is 3, and decode_to_vec([3], true) returns the empty list.
C16_OneUnknownToken ==
    IsC16Call =>
        /\ ~Unwrap(enc_result).panic
        /\ Unwrap(enc_result).input.token_ids = << 3 >>
        /\ Unwrap(enc_result).input.mask = << "Unknown" >>
        /\ IsSkippingDecodeToVec => Unwrap(dec_result) = << >>

C16_Witness ==
    /\ IsC16Call
    /\ IsSkippingDecodeToVec
    /\ Unwrap(dec_args).token_ids = << 3 >>
    /\ Unwrap(dec_result) = << >>

\* ========================================================================
\* The canister (lib.rs, upload.rs)
\* ========================================================================
\* tokenize_text's max_len argument of encode
TOKENIZE_MAX_LEN == 128

\* upload_data_chunks (upload.rs 20-26), with the chunks put in front: used to
\* show what the append order carries
upload_data_chunks_Prepend(wasm_ref_cell, bytes) == bytes \o wasm_ref_cell

\* upload_data_chunks (upload.rs 20-26): Vec::extend
upload_data_chunks(wasm_ref_cell, bytes) == wasm_ref_cell \o bytes

\* std::str::from_utf8 as an Option
from_utf8(bytes) ==
    IF Utf8Valid(bytes) THEN Some(from_utf8_lossy(bytes)) ELSE None

\* bytes_to_vocab and bytes_to_merges (lib.rs 39-61, 65-87) take the whole
\* buffer; what they leave in the staged cell given its content before
TakeBuffer(wasm_ref_cell, staged_cell) ==
    LET text == from_utf8(wasm_ref_cell) IN
    [ok |-> text # None,
     staged |-> IF text # None THEN Some(Unwrap(text)) ELSE staged_cell]

InitOutcome(status, vocab_cell, merges_cell, tokenizer_cell) ==
    [status |-> status, VOCAB_STR |-> vocab_cell, MERGES_STR |-> merges_cell,
     TOKENIZER |-> tokenizer_cell]

\* initialize_tokenizer that clones the staged strings instead of taking
\* them: used to show what the re-staging statement rests on
initialize_tokenizer_KeepsStaged(vocab_cell, merges_cell, tokenizer_cell) ==
    IF vocab_cell = None
    THEN { InitOutcome("Vocab string not found.", vocab_cell, merges_cell,
                       tokenizer_cell) }
    ELSE IF merges_cell = None
    THEN { InitOutcome("Merges string not found.", vocab_cell, merges_cell,
                       tokenizer_cell) }
    ELSE LET vocabs == Gpt2Vocab_from_cache(Unwrap(vocab_cell)) IN
         IF vocabs = {}
         THEN { InitOutcome("Failed to load vocab from cache.", vocab_cell,
                            merges_cell, tokenizer_cell) }
         ELSE { InitOutcome("Tokenizer initialized successfully.", vocab_cell,
                            merges_cell,
                            Some(from_existing_vocab_and_merges(
                                    v, BpePairVocab_from_cache(Unwrap(merges_cell)),
                                    FALSE))) : v \in vocabs }

\* initialize_tokenizer that drops the tokenizer when it fails
initialize_tokenizer_DropsTokenizer(vocab_cell, merges_cell, tokenizer_cell) ==
    IF vocab_cell = None
    THEN { InitOutcome("Vocab string not found.", None, merges_cell, None) }
    ELSE IF merges_cell = None
    THEN { InitOutcome("Merges string not found.", None, None, None) }
    ELSE LET vocabs == Gpt2Vocab_from_cache(Unwrap(vocab_cell)) IN
         IF vocabs = {}
         THEN { InitOutcome("Failed to load vocab from cache.", None, None, None) }
         ELSE { InitOutcome("Tokenizer initialized successfully.", None, None,
                            Some(from_existing_vocab_and_merges(
                                    v, BpePairVocab_from_cache(Unwrap(merges_cell)),
                                    FALSE))) : v \in vocabs }

\* initialize_tokenizer (lib.rs 89-116): the status it returns and the cells
\* it leaves, one outcome per vocabulary Gpt2Vocab::from_cache may build.
\* VOCAB_STR is taken first; MERGES_STR is taken only when a vocabulary
\* string was there.  BpePairVocab::from_cache has no Err.
initialize_tokenizer(vocab_cell, merges_cell, tokenizer_cell) ==
    IF vocab_cell = None
    THEN { InitOutcome("Vocab string not found.", None, merges_cell,
                       tokenizer_cell) }
    ELSE IF merges_cell = None
    THEN { InitOutcome("Merges string not found.", None, None, tokenizer_cell) }
    ELSE LET vocabs == Gpt2Vocab_from_cache(Unwrap(vocab_cell)) IN
         IF vocabs = {}
         THEN { InitOutcome("Failed to load vocab from cache.", None, None,
                            tokenizer_cell) }
         ELSE { InitOutcome("Tokenizer initialized successfully.", None, None,
                            Some(from_existing_vocab_and_merges(
                                    v, BpePairVocab_from_cache(Unwrap(merges_cell)),
                                    FALSE))) : v \in vocabs }

TokenizeOutcome(p, ids, tokens) ==
    [panic |-> p, token_ids |-> ids, tokens |-> tokens]

\* tokenize_text as it was before (lib.rs 118-131, commented out): it
\* expect()s an initialized tokenizer
tokenize_text_Expect(tokenizer_cell, text) ==
    IF tokenizer_cell = None THEN { TokenizeOutcome(TRUE, << >>, << >>) }
    ELSE { TokenizeOutcome(FALSE, << >>, << >>) }

\* tokenize_text (lib.rs 135-158): the pairs it may return, one per iteration
\* order of the special tokens
tokenize_text(tokenizer_cell, text) ==
    IF tokenizer_cell = None THEN { TokenizeOutcome(FALSE, << >>, << >>) }
    ELSE LET tokenizer == Unwrap(tokenizer_cell) IN
         { LET tokenized_input ==
                   encode(tokenizer, ko, text, None, TOKENIZE_MAX_LEN,
                          "LongestFirst", 0)
           IN  IF tokenized_input.panic THEN TokenizeOutcome(TRUE, << >>, << >>)
               ELSE LET token_ids == tokenized_input.input.token_ids
                        tokens_list == decode_to_vec(tokenizer, token_ids, TRUE)
                    IN  TokenizeOutcome(FALSE, token_ids,
                            [i \in 1..Len(tokens_list) |->
                                Replace(tokens_list[i], << 288 >>, << 32 >>)]) :
           ko \in KeyOrders(tokenizer.vocab) }

\* The chunks uploaded: at most MaxChunks in the buffer at a time.
MaxChunks == 2

\* The vocabulary file {"a":0,"Ġ":1,"<|endoftext|>":2} in two chunks, cut
\* between the two bytes (196, 160) of "Ġ": neither chunk is UTF-8 alone.
VocabHead == << 123, 34, 97, 34, 58, 48, 44, 34, 196 >>

VocabTail ==
    << 160, 34, 58, 49, 44, 34 >> \o DEFAULT_UNK_TOKEN \o << 34, 58, 50, 125 >>

\* A vocabulary file without the unknown token, in one chunk: {"b":0}
VocabNoUnk == << 123, 34, 98, 34, 58, 48, 125 >>

\* "#\na a\n"
MergesChunk == << 35, 10, 97, 32, 97, 10 >>

Chunk(file, bytes) == [file |-> file, bytes |-> bytes]

Chunks ==
    { Chunk("vocab", VocabHead), Chunk("vocab", VocabTail),
      Chunk("vocab", VocabNoUnk), Chunk("merges", MergesChunk) }

\* "", " a", "b" (not in the vocabulary) and "a<|endoftext|>"
CanisterTexts ==
    { << >>, << 32, 97 >>, << 98 >>, << 97 >> \o DEFAULT_UNK_TOKEN }

InitCanister ==
    /\ IdleTrunc
    /\ IdleIter
    /\ IdleEncode
    /\ IdleVocab
    /\ IdleMerge
    /\ IdleUtil
    /\ IdleBpe
    /\ IdleCanister

UploadDataChunks ==
    /\ Len(uploaded) < MaxChunks
    /\ \E c \in Chunks :
          /\ WASM_REF_CELL' = upload_data_chunks(WASM_REF_CELL, c.bytes)
          /\ uploaded' = Append(uploaded, c)
    /\ reply' = [call |-> "upload_data_chunks"]
    /\ UNCHANGED << VOCAB_STR, MERGES_STR, TOKENIZER, initialized, otherThanCanister >>

\* clear_wasm_ref_cell (upload.rs 13-18)
ClearWasmRefCell ==
    /\ WASM_REF_CELL' = << >>
    /\ uploaded' = << >>
    /\ reply' = [call |-> "clear_wasm_ref_cell"]
    /\ UNCHANGED << VOCAB_STR, MERGES_STR, TOKENIZER, initialized, otherThanCanister >>

\* wasm_ref_cell_length (upload.rs 8-11)
WasmRefCellLength ==
    /\ reply' = [call |-> "wasm_ref_cell_length", value |-> Len(WASM_REF_CELL)]
    /\ UNCHANGED << WASM_REF_CELL, uploaded, VOCAB_STR, MERGES_STR, TOKENIZER,
                    initialized, otherThanCanister >>

BytesToVocab ==
    LET taken == TakeBuffer(WASM_REF_CELL, VOCAB_STR) IN
    /\ WASM_REF_CELL' = << >>
    /\ uploaded' = << >>
    /\ VOCAB_STR' = taken.staged
    /\ reply' = [call |-> "bytes_to_vocab", ok |-> taken.ok]
    /\ UNCHANGED << MERGES_STR, TOKENIZER, initialized, otherThanCanister >>

BytesToMerges ==
    LET taken == TakeBuffer(WASM_REF_CELL, MERGES_STR) IN
    /\ WASM_REF_CELL' = << >>
    /\ uploaded' = << >>
    /\ MERGES_STR' = taken.staged
    /\ reply' = [call |-> "bytes_to_merges", ok |-> taken.ok]
    /\ UNCHANGED << VOCAB_STR, TOKENIZER, initialized, otherThanCanister >>

InitSuccess == "Tokenizer initialized successfully."

InitializeTokenizer ==
    /\ \E out \in initialize_tokenizer(VOCAB_STR, MERGES_STR, TOKENIZER) :
          /\ VOCAB_STR' = out.VOCAB_STR
          /\ MERGES_STR' = out.MERGES_STR
          /\ TOKENIZER' = out.TOKENIZER
          /\ reply' = [call |-> "initialize_tokenizer", value |-> out.status]
          /\ initialized' = (initialized \/ out.status = InitSuccess)
    /\ UNCHANGED << WASM_REF_CELL, uploaded, otherThanCanister >>

\* tokenize_text is a query: the canister state, the tokenizer's cache with
\* it, is as before once the call has returned.
TokenizeText ==
    /\ \E text \in CanisterTexts :
          \E out \in tokenize_text(TOKENIZER, text) :
             reply' = [call |-> "tokenize_text", text |-> text, value |-> out]
    /\ UNCHANGED << WASM_REF_CELL, uploaded, VOCAB_STR, MERGES_STR, TOKENIZER,
                    initialized, otherThanCanister >>

NextCanister ==
    \/ UploadDataChunks
    \/ ClearWasmRefCell
    \/ WasmRefCellLength
    \/ BytesToVocab
    \/ BytesToMerges
    \/ InitializeTokenizer
    \/ TokenizeText

SpecCanister == InitCanister /\ [][NextCanister]_vars

\* ------------------------------------------------------------------------
\* C5
\* ------------------------------------------------------------------------
\* C5: as long as no initialize_tokenizer call has succeeded, whatever was
\* uploaded, cleared, staged or tried before, tokenize_text returns the pair
\* of empty lists for every text and does not fail.
C5_EmptyBeforeInit ==
    (reply.call = "tokenize_text" /\ ~initialized) =>
        reply.value = TokenizeOutcome(FALSE, << >>, << >>)

\* tokenize_text(" a") answered while both files are staged and no
\* initialization has succeeded.
C5_Witness ==
    /\ reply.call = "tokenize_text"
    /\ reply.text = << 32, 97 >>
    /\ ~initialized
    /\ VOCAB_STR # None
    /\ MERGES_STR # None
    /\ reply.value = TokenizeOutcome(FALSE, << >>, << >>)

\* ------------------------------------------------------------------------
\* C6
\* ------------------------------------------------------------------------
\* The bytes of the chunks of one file, in append order
RECURSIVE BytesMeantFor(_, _)
BytesMeantFor(file, chunks) ==
    IF chunks = << >> THEN << >>
    ELSE (IF Head(chunks).file = file THEN Head(chunks).bytes ELSE << >>)
         \o BytesMeantFor(file, Tail(chunks))

\* The bytes of all the chunks, in append order
RECURSIVE AllBytes(_)
AllBytes(chunks) ==
    IF chunks = << >> THEN << >> ELSE Head(chunks).bytes \o AllBytes(Tail(chunks))

StagedBytes(staged_cell) == Utf8Bytes(Unwrap(staged_cell))

\* C6 as stated: the vocabulary bytes and the merge-table bytes accumulate
\* apart, so the text a bytes_to_vocab call stages is the bytes of the
\* vocabulary chunks appended since the buffer was last emptied, in append
\* order, and the text a bytes_to_merges call stages is the bytes of the
\* merge-table chunks.
C6_SeparateBuffers ==
    [][ /\ (reply'.call = "bytes_to_vocab" /\ reply'.ok) =>
              StagedBytes(VOCAB_STR') = BytesMeantFor("vocab", uploaded)
        /\ (reply'.call = "bytes_to_merges" /\ reply'.ok) =>
              StagedBytes(MERGES_STR') = BytesMeantFor("merges", uploaded)
      ]_vars

\* C6: the bytes accumulate in one buffer, in append order, whichever file
\* they are meant for; a bytes_to_vocab or bytes_to_merges call stages all
\* of them when they are UTF-8, stages nothing otherwise, and empties the
\* buffer in both cases.
C6_SharedBuffer ==
    [][ /\ WASM_REF_CELL' = AllBytes(uploaded')
        /\ (reply'.call = "bytes_to_vocab") =>
              /\ WASM_REF_CELL' = << >>
              /\ reply'.ok => StagedBytes(VOCAB_STR') = AllBytes(uploaded)
              /\ ~reply'.ok => VOCAB_STR' = VOCAB_STR
        /\ (reply'.call = "bytes_to_merges") =>
              /\ WASM_REF_CELL' = << >>
              /\ reply'.ok => StagedBytes(MERGES_STR') = AllBytes(uploaded)
              /\ ~reply'.ok => MERGES_STR' = MERGES_STR
      ]_vars

\* bytes_to_vocab has staged a vocabulary chunk followed by a merge-table
\* chunk as the vocabulary text.
C6_Witness ==
    /\ reply.call = "bytes_to_vocab"
    /\ reply.ok
    /\ WASM_REF_CELL = << >>
    /\ StagedBytes(VOCAB_STR) = VocabNoUnk \o MergesChunk

\* ------------------------------------------------------------------------
\* C7
\* ------------------------------------------------------------------------
InitStatuses ==
    { "Vocab string not found.", "Merges string not found.",
      "Failed to load vocab from cache.", "Failed to load merges from cache.",
      InitSuccess }

\* C7 as stated: initialize_tokenizer returns a status, and a call that
\* fails leaves neither the vocabulary nor the merges staged, so that both
\* have to be staged again before a call can succeed.
C7_FailedInitTakesBoth ==
    [][ (reply'.call = "initialize_tokenizer") =>
           /\ reply'.value \in InitStatuses
           /\ reply'.value # InitSuccess =>
                 (VOCAB_STR' = None /\ MERGES_STR' = None)
      ]_vars

\* C7: initialize_tokenizer returns one of its statuses; it succeeds only
\* when both the vocabulary and the merges are staged; a call that fails
\* leaves no vocabulary staged, and leaves no merges staged either unless it
\* failed with "Vocab string not found.", which leaves the merges as they
\* were; only bytes_to_vocab and bytes_to_merges stage a text.
C7_FailedInitTakesVocab ==
    [][ /\ (reply'.call = "initialize_tokenizer") =>
              /\ reply'.value \in InitStatuses
              /\ reply'.value = InitSuccess =>
                    (VOCAB_STR # None /\ MERGES_STR # None /\ TOKENIZER' # None)
              /\ reply'.value # InitSuccess =>
                    /\ VOCAB_STR' = None
                    /\ TOKENIZER' = TOKENIZER
                    /\ \/ MERGES_STR' = None
                       \/ /\ reply'.value = "Vocab string not found."
                          /\ MERGES_STR' = MERGES_STR
        /\ (VOCAB_STR = None /\ VOCAB_STR' # None) =>
              reply'.call = "bytes_to_vocab"
        /\ (MERGES_STR = None /\ MERGES_STR' # None) =>
              reply'.call = "bytes_to_merges"
      ]_vars

\* initialize_tokenizer has failed for want of a vocabulary, and the merges
\* staged before are still staged.
C7_Witness ==
    /\ reply.call = "initialize_tokenizer"
    /\ reply.value = "Vocab string not found."
    /\ VOCAB_STR = None
    /\ MERGES_STR # None

\* ------------------------------------------------------------------------
\* C17
\* ------------------------------------------------------------------------
\* The display string of an id: its vocabulary string with the leading-space
\* marker U+0120 replaced by a space
DisplayString(tokenizer, id) ==
    Replace(id_to_token(tokenizer.vocab, id), << 288 >>, << 32 >>)

\* C17: for an initialized tokenizer and every text, tokenize_text returns
\* a list of ids and a list of display strings of the same length, the i-th
\* string being the display string of the i-th id.
C17_DisplayStringsMatchIds ==
    (reply.call = "tokenize_text" /\ TOKENIZER # None) =>
        /\ ~reply.value.panic
        /\ Len(reply.value.tokens) = Len(reply.value.token_ids)
        /\ \A i \in 1..Len(reply.value.token_ids) :
              reply.value.tokens[i]
                 = DisplayString(Unwrap(TOKENIZER), reply.value.token_ids[i])

\* ------------------------------------------------------------------------
\* C30
\* ------------------------------------------------------------------------
\* The step is a call of initialize_tokenizer that failed
IsFailedInit == reply'.call = "initialize_tokenizer" /\ reply'.value # InitSuccess

\* C30: a failed initialize_tokenizer call (vocabulary or merges not
\* staged, vocabulary not parsed, special token missing) leaves a tokenizer
\* committed before as it was: tokenize_text returns for every text what it
\* returned before the call.
C30_FailedInitKeepsTokenizer ==
    [][(IsFailedInit /\ TOKENIZER # None) =>
          /\ TOKENIZER' = TOKENIZER
          /\ \A text \in CanisterTexts :
                tokenize_text(TOKENIZER', text) = tokenize_text(TOKENIZER, text)]_vars

\* With a tokenizer committed, a vocabulary without the unknown token and
\* the merges were staged and initialize_tokenizer failed on the vocabulary;
\* the tokenizer is still there.
C30_Witness ==
    /\ initialized
    /\ TOKENIZER # None
    /\ reply.call = "initialize_tokenizer"
    /\ reply.value = "Failed to load vocab from cache."

\* ========================================================================
\* A vocabulary and the calls on it (base_vocab.rs, gpt2_vocab.rs)
\* ========================================================================
\* The vocabulary never grows beyond MaxVocabSize entries, a call of
\* add_extra_ids adds at most MaxExtraIds.
MaxVocabSize == 5

MaxExtraIds == 2

\* The sources a vocabulary is constructed from:
\*   {"a":0,"b":1,"<|endoftext|>":2}    ids 0..2
\*   {"a":0,"<|endoftext|>":2}          an id is skipped
\*   {"x":3,"<|endoftext|>":3}          two tokens share an id
\*   {"a":0}                            the unknown token is missing
VocabSources ==
    { JsonText(<< << << 97 >>, 0 >>, << << 98 >>, 1 >>, << DEFAULT_UNK_TOKEN, 2 >> >>),
      JsonText(<< << << 97 >>, 0 >>, << DEFAULT_UNK_TOKEN, 2 >> >>),
      JsonText(<< << << 120 >>, 3 >>, << DEFAULT_UNK_TOKEN, 3 >> >>),
      JsonText(<< << << 97 >>, 0 >> >>) }

\* The lists add_tokens is called with: one or two of "a", "c", "d"
AddedTokens == { << 97 >>, << 99 >>, << 100 >> }

TokenLists ==
    { << t >> : t \in AddedTokens } \cup { << t, u >> : t, u \in AddedTokens }

\* The strings token_to_id is asked for besides the keys of values: "a",
\* "c", "d" and "z"
LookedUpTokens == AddedTokens \cup { << 122 >> }

\* The results of from_cache as Options: None for Err
Constructed(vocabularies) ==
    IF vocabularies = {} THEN { None } ELSE { Some(v) : v \in vocabularies }

InitVocab ==
    /\ IdleTrunc
    /\ IdleIter
    /\ IdleEncode
    /\ IdleCanister
    /\ IdleBpe
    /\ IdleMerge
    /\ IdleUtil
    /\ \E text \in VocabSources :
          vocab_state \in Constructed(Gpt2Vocab_from_cache(text))
    /\ vocab_call = [call |-> "from_cache"]

VocabSize == Cardinality(DOMAIN Unwrap(vocab_state).values)

AddTokens ==
    /\ vocab_state # None
    /\ \E tokens \in TokenLists :
          /\ VocabSize + Len(tokens) <= MaxVocabSize
          /\ vocab_state' = Some(add_tokens(Unwrap(vocab_state), tokens))
          /\ vocab_call' = [call |-> "add_tokens", tokens |-> tokens]
    /\ UNCHANGED otherThanVocab

AddExtraIds ==
    /\ vocab_state # None
    /\ \E num_extra_ids \in 1..MaxExtraIds :
          /\ VocabSize + num_extra_ids <= MaxVocabSize
          /\ vocab_state' = Some(add_extra_ids(Unwrap(vocab_state), num_extra_ids))
          /\ vocab_call' = [call |-> "add_extra_ids", num |-> num_extra_ids]
    /\ UNCHANGED otherThanVocab

\* What token_to_id gave, and what id_to_token gave for it
Looked(token, id, vocabulary) ==
    [call |-> "token_to_id", token |-> token, id |-> id,
     back |-> IF id = None THEN None ELSE Some(id_to_token(vocabulary, Unwrap(id)))]

\* token_to_id(t) for a token of the main map or another string, then
\* id_to_token of the id
TokenToId ==
    /\ vocab_state # None
    /\ \E t \in DOMAIN Unwrap(vocab_state).values \cup LookedUpTokens :
          vocab_call' = Looked(t, token_to_id(Unwrap(vocab_state), t),
                               Unwrap(vocab_state))
    /\ UNCHANGED << vocab_state, otherThanVocab >>

NextVocab ==
    \/ AddTokens
    \/ AddExtraIds
    \/ TokenToId

SpecVocab == InitVocab /\ [][NextVocab]_vars

\* ------------------------------------------------------------------------
\* C9
\* ------------------------------------------------------------------------
\* C9: for every token t of the main map, id_to_token(token_to_id(t)) is t,
\* and token_to_id returns the special map's entry for a string that both
\* maps hold.
C9_TokenIdRoundTrip ==
    (vocab_call.call = "token_to_id"
        /\ vocab_call.token \in DOMAIN Unwrap(vocab_state).values) =>
        /\ vocab_call.id # None
        /\ vocab_call.back = Some(vocab_call.token)
        /\ (vocab_call.token \in DOMAIN Unwrap(vocab_state).special_values) =>
              vocab_call.id =
                 Some(Unwrap(vocab_state).special_values[vocab_call.token])

\* ------------------------------------------------------------------------
\* C10
\* ------------------------------------------------------------------------
\* C10: in every state of the vocabulary, after its construction and after
\* any add_tokens and add_extra_ids calls, values[s] = i if and only if
\* indices[i] = s.
C10_ValuesIndicesInverse ==
    (vocab_state # None) =>
        /\ \A s \in DOMAIN Unwrap(vocab_state).values :
              /\ Unwrap(vocab_state).values[s] \in DOMAIN Unwrap(vocab_state).indices
              /\ Unwrap(vocab_state).indices[Unwrap(vocab_state).values[s]] = s
        /\ \A i \in DOMAIN Unwrap(vocab_state).indices :
              /\ Unwrap(vocab_state).indices[i] \in DOMAIN Unwrap(vocab_state).values
              /\ Unwrap(vocab_state).values[Unwrap(vocab_state).indices[i]] = i

\* ------------------------------------------------------------------------
\* C11
\* ------------------------------------------------------------------------
\* The list a call of add_tokens or add_extra_ids hands to add_tokens
CallTokens(call) ==
    IF call.call = "add_tokens" THEN call.tokens
    ELSE [i \in 1..call.num |-> ExtraIdToken(i - 1)]

\* The strings of a list that are not keys of values
NewStrings(vocabulary, tokens) ==
    { t \in Range(tokens) : t \notin DOMAIN vocabulary.values }

\* The ids no entry of the vocabulary uses
IdInUse(vocabulary, id) ==
    \/ id \in MapValues(vocabulary.values)
    \/ id \in DOMAIN vocabulary.indices

\* Every new string of the list has, in values and in indices, one id that
\* no entry used before, and the new ids are the next ones in sequence.
FreshSequentialIds(before, after, tokens) ==
    /\ \A t \in NewStrings(before, tokens) :
          /\ t \in DOMAIN after.values
          /\ ~IdInUse(before, after.values[t])
          /\ after.values[t] \in DOMAIN after.indices
          /\ after.indices[after.values[t]] = t
    /\ { after.values[t] : t \in NewStrings(before, tokens) }
          = { Cardinality(DOMAIN before.values) + k - 1 :
                 k \in 1..Cardinality(NewStrings(before, tokens)) }
    /\ DOMAIN after.indices
          = DOMAIN before.indices
            \cup { after.values[t] : t \in NewStrings(before, tokens) }

\* A second call with the same list changes none of the four maps.
SecondCallChangesNothing(after, tokens) ==
    add_tokens(after, tokens) = after

IsAddCall(call) == call.call \in {"add_tokens", "add_extra_ids"}

\* C11: add_tokens gives each string that is not yet in values the next
\* sequential id, an id no existing entry uses, in values and in indices,
\* and calling it again with the same list leaves values, indices,
\* special_values and special_indices as they are after the first call.
C11_FreshIdsAndIdempotent ==
    [][ IsAddCall(vocab_call') =>
           /\ FreshSequentialIds(Unwrap(vocab_state), Unwrap(vocab_state'),
                                 CallTokens(vocab_call'))
           /\ SecondCallChangesNothing(Unwrap(vocab_state'),
                                       CallTokens(vocab_call')) ]_vars

\* The part of C11 the code keeps: the second call changes nothing.
C11_Idempotent ==
    [][ IsAddCall(vocab_call') =>
           SecondCallChangesNothing(Unwrap(vocab_state'),
                                    CallTokens(vocab_call')) ]_vars

\* ------------------------------------------------------------------------
\* C12
\* ------------------------------------------------------------------------
\* The id the three-way rule names for a string
RuleId(vocabulary, token) ==
    IF token \in DOMAIN vocabulary.special_values
    THEN vocabulary.special_values[token]
    ELSE IF token \in DOMAIN vocabulary.values
    THEN vocabulary.values[token]
    ELSE vocabulary.values[get_unknown_value(vocabulary)]

\* C12: a vocabulary that was constructed holds the unknown token in values
\* after any add_tokens and add_extra_ids calls, and token_to_id(s) returns,
\* without failing, the special map's id if s is special, else the main
\* map's id if s is in values, else the id of the unknown token.
C12_TokenToIdTotal ==
    (vocab_state # None) =>
        /\ get_unknown_value(Unwrap(vocab_state))
              \in DOMAIN Unwrap(vocab_state).values
        /\ (vocab_call.call = "token_to_id") =>
              /\ vocab_call.id # None
              /\ vocab_call.id =
                    Some(RuleId(Unwrap(vocab_state), vocab_call.token))

\* token_to_id of a string that is in neither map, after add_extra_ids
C12_Witness ==
    /\ vocab_state # None
    /\ vocab_call.call = "token_to_id"
    /\ vocab_call.token \notin DOMAIN Unwrap(vocab_state).values
    /\ ExtraIdToken(0) \in DOMAIN Unwrap(vocab_state).values
    /\ vocab_call.id =
          Some(Unwrap(vocab_state).values[DEFAULT_UNK_TOKEN])

\* ========================================================================
\* Concurrent callers of split_on_bpe_pairs on one tokenizer
\* (tokenization_utils.rs 525-621)
\* ========================================================================
\* The number of callers
NumCallers == 2

Callers == 1..NumCallers

\* Another party that takes the cache lock and holds it as long as it likes
Holder == NumCallers + 1

\* RwLock::try_read (line 554): Ok unless the lock is write-locked.  The
\* outcomes are a set: a call that had to wait would have none while the
\* lock is held.
try_read_Blocking(lock_writer) ==
    IF lock_writer = None THEN { "Ok" } ELSE { }

try_read(lock_writer) ==
    IF lock_writer = None THEN { "Ok" } ELSE { "WouldBlock" }

\* RwLock::try_write (line 592): Ok when nobody holds the lock
try_write(lock_readers, lock_writer) ==
    IF lock_readers = {} /\ lock_writer = None THEN { "Ok" } ELSE { "WouldBlock" }

\* The merges "a b" and "Ġ b"
BpeRanks == BpePairVocab_from_cache(SmallMergesText)

\* The pre-tokens of the calls: "ab" at the reference offsets 0..1, "ab" at
\* the reference offsets 2..3, and "é", whose two bytes give two symbols
\* with the same reference offset
PreTokens ==
    { Token(<< 97, 98 >>, Offset(0, 2), << 0, 1 >>, "None"),
      Token(<< 97, 98 >>, Offset(2, 4), << 2, 3 >>, "None"),
      Token(<< 233 >>, Offset(0, 1), << 0 >>, "None") }

NoAttempt == [read |-> "none", write |-> "none"]

InitBpe ==
    /\ IdleTrunc
    /\ IdleIter
    /\ IdleEncode
    /\ IdleCanister
    /\ IdleVocab
    /\ IdleMerge
    /\ IdleUtil
    /\ cache = EmptyMap
    /\ readers = {}
    /\ writer = None
    /\ pc = [c \in Callers |-> "idle"]
    /\ call_token = [c \in Callers |-> None]
    /\ attempts = [c \in Callers |-> NoAttempt]
    /\ bpe_output = [c \in Callers |-> None]
    /\ returned = [c \in Callers |-> None]

\* split_on_bpe_pairs is called with a pre-token
Call(c) ==
    /\ pc[c] = "idle"
    /\ \E token \in PreTokens : call_token' = [call_token EXCEPT ![c] = Some(token)]
    /\ pc' = [pc EXCEPT ![c] = "try_read"]
    /\ UNCHANGED << cache, readers, writer, attempts, bpe_output, returned,
                    otherThanBpe >>

\* Line 554: cache.try_read()
TryRead(c) ==
    /\ pc[c] = "try_read"
    /\ \E outcome \in try_read(writer) :
          IF outcome = "Ok"
          THEN /\ readers' = readers \cup {c}
               /\ pc' = [pc EXCEPT ![c] = "reading"]
               /\ attempts' = [attempts EXCEPT ![c].read = "ok"]
          ELSE /\ readers' = readers
               /\ pc' = [pc EXCEPT ![c] = "compute"]
               /\ attempts' = [attempts EXCEPT ![c].read = "failed"]
    /\ UNCHANGED << cache, writer, call_token, bpe_output, returned, otherThanBpe >>

\* What the caller does with the entry cache.get gave, if any
ReadEntry(c, entry) ==
    IF entry # None
    THEN /\ returned' =
              [returned EXCEPT ![c] =
                  Some(EntryTokens(Unwrap(entry),
                                   ProjectedOffsets(Unwrap(call_token[c]))))]
         /\ pc' = [pc EXCEPT ![c] = "done"]
    ELSE /\ returned' = returned
         /\ pc' = [pc EXCEPT ![c] = "compute"]

\* Lines 555-585 under the read lock, which the end of the statement drops
ReadCache(c) ==
    /\ pc[c] = "reading"
    /\ ReadEntry(c, CacheGet(cache, ProjectedText(Unwrap(call_token[c]))))
    /\ readers' = readers \ {c}
    /\ UNCHANGED << cache, writer, call_token, attempts, bpe_output, otherThanBpe >>

\* Line 591: let (bpe_output, char_counts) = bpe_function(text, bpe_ranks)
Compute(c) ==
    /\ pc[c] = "compute"
    /\ \E text \in { ProjectedText(Unwrap(call_token[c])) } :
          \E output \in { bpe(text, BpeRanks) } :
             bpe_output' = [bpe_output EXCEPT ![c] = Some(output)]
    /\ pc' = [pc EXCEPT ![c] = "try_write"]
    /\ UNCHANGED << cache, readers, writer, call_token, attempts, returned,
                    otherThanBpe >>

\* Line 592: cache.try_write()
TryWrite(c) ==
    /\ pc[c] = "try_write"
    /\ \E outcome \in try_write(readers, writer) :
          IF outcome = "Ok"
          THEN /\ writer' = Some(c)
               /\ pc' = [pc EXCEPT ![c] = "writing"]
               /\ attempts' = [attempts EXCEPT ![c].write = "ok"]
          ELSE /\ writer' = writer
               /\ pc' = [pc EXCEPT ![c] = "build"]
               /\ attempts' = [attempts EXCEPT ![c].write = "failed"]
    /\ UNCHANGED << cache, readers, call_token, bpe_output, returned, otherThanBpe >>

\* Line 593: cache.insert under the write lock, which the end of the block
\* drops
CacheInsert(c) ==
    /\ pc[c] = "writing"
    /\ cache' = cache_insert(cache, ProjectedText(Unwrap(call_token[c])),
                             Unwrap(bpe_output[c]))
    /\ writer' = None
    /\ pc' = [pc EXCEPT ![c] = "build"]
    /\ UNCHANGED << readers, call_token, attempts, bpe_output, returned,
                    otherThanBpe >>

\* Lines 595-619: the tokens of the pieces computed; the call returns
Build(c) ==
    /\ pc[c] = "build"
    /\ returned' =
          [returned EXCEPT ![c] =
              Some(EntryTokens(Unwrap(bpe_output[c]),
                               ProjectedOffsets(Unwrap(call_token[c]))))]
    /\ pc' = [pc EXCEPT ![c] = "done"]
    /\ UNCHANGED << cache, readers, writer, call_token, attempts, bpe_output,
                    otherThanBpe >>

\* The caller is ready for its next call
Forget(c) ==
    /\ pc[c] = "done"
    /\ pc' = [pc EXCEPT ![c] = "idle"]
    /\ call_token' = [call_token EXCEPT ![c] = None]
    /\ attempts' = [attempts EXCEPT ![c] = NoAttempt]
    /\ bpe_output' = [bpe_output EXCEPT ![c] = None]
    /\ returned' = [returned EXCEPT ![c] = None]
    /\ UNCHANGED << cache, readers, writer, otherThanBpe >>

\* The steps of one call, from its try_read to its return
CallerStep(c) ==
    \/ TryRead(c)
    \/ ReadCache(c)
    \/ Compute(c)
    \/ TryWrite(c)
    \/ CacheInsert(c)
    \/ Build(c)

\* The other party takes the read lock, takes the write lock, lets go
HolderRead ==
    /\ writer = None
    /\ Holder \notin readers
    /\ readers' = readers \cup {Holder}
    /\ UNCHANGED << cache, writer, pc, call_token, attempts, bpe_output, returned,
                    otherThanBpe >>

HolderWrite ==
    /\ writer = None
    /\ readers = {}
    /\ writer' = Some(Holder)
    /\ UNCHANGED << cache, readers, pc, call_token, attempts, bpe_output, returned,
                    otherThanBpe >>

HolderRelease ==
    /\ Holder \in readers \/ writer = Some(Holder)
    /\ readers' = readers \ {Holder}
    /\ writer' = IF writer = Some(Holder) THEN None ELSE writer
    /\ UNCHANGED << cache, pc, call_token, attempts, bpe_output, returned,
                    otherThanBpe >>

NextBpe ==
    \/ \E c \in Callers : Call(c)
    \/ \E c \in Callers : CallerStep(c)
    \/ \E c \in Callers : Forget(c)
    \/ HolderRead
    \/ HolderWrite
    \/ HolderRelease

\* Every caller goes on with a call it has begun; nothing makes the other
\* party let go of the lock.
SpecBpe ==
    /\ InitBpe
    /\ [][NextBpe]_vars
    /\ \A c \in Callers : WF_vars(CallerStep(c))

\* ------------------------------------------------------------------------
\* C3
\* ------------------------------------------------------------------------
\* What the call gives with nobody else on the cache, which is empty
Uncontended(token) == split_on_bpe_pairs(token, BpeRanks, EmptyMap, TRUE, TRUE).tokens

\* C3: whatever the outcomes of its try_read and try_write and whatever the
\* other callers did meanwhile, a call returns the pieces (texts, offsets,
\* reference offsets, masks) of the uncontended computation.
C3_SameAsUncontended ==
    \A c \in Callers :
       (pc[c] = "done") =>
          Unwrap(returned[c]) = Uncontended(Unwrap(call_token[c]))

\* A call for "ab" at the offsets 2..3 was served from the cache, next to a
\* call whose try_read failed and which stored what it computed.
C3_Witness ==
    \E c, d \in Callers :
       /\ pc[c] = "done" /\ pc[d] = "done"
       /\ attempts[c].read = "ok" /\ bpe_output[c] = None
       /\ Unwrap(call_token[c]).reference_offsets = << 2, 3 >>
       /\ attempts[d].read = "failed" /\ attempts[d].write = "ok"
       /\ Unwrap(call_token[d]).reference_offsets = << 0, 1 >>

\* ------------------------------------------------------------------------
\* C4
\* ------------------------------------------------------------------------
\* C4: a call never waits for the cache lock: whoever holds it and however
\* long, the call that has reached its try_read returns, and a call whose
\* try_read failed has computed the merge itself.
C4_NeverWaits ==
    /\ \A c \in Callers : (pc[c] = "try_read") ~> (pc[c] = "done")
    /\ [](\A c \in Callers :
             (pc[c] = "done" /\ attempts[c].read = "failed") =>
                bpe_output[c] # None)

\* A call has returned although both its try_read and its try_write failed
\* on the lock the other party still holds.
C4_Witness ==
    \E c \in Callers :
       /\ pc[c] = "done"
       /\ attempts[c].read = "failed"
       /\ attempts[c].write = "failed"
       /\ writer = Some(Holder)
       /\ returned[c] # None

\* ------------------------------------------------------------------------
\* C28
\* ------------------------------------------------------------------------
\* The call of c found its text in the cache and returned from there
ServedFromCache(c) ==
    pc[c] = "done" /\ attempts[c].read = "ok" /\ bpe_output[c] = None

\* C28: in every reachable state, whatever the calls of split_on_bpe_pairs
\* and their interleaving, each entry of the cache maps its key to the
\* pieces and char counts bpe computes for the key with the tokenizer's
\* merge table; a step never removes or changes an entry; and a call served
\* from the cache returns the tokens the recomputation gives.
C28_CacheHoldsBpe ==
    /\ [](\A k \in DOMAIN cache : cache[k] = bpe(k, BpeRanks))
    /\ [][\A k \in DOMAIN cache : k \in DOMAIN cache' /\ cache'[k] = cache[k]]_vars
    /\ [](\A c \in Callers :
             ServedFromCache(c) =>
                Unwrap(returned[c])
                   = EntryTokens(bpe(ProjectedText(Unwrap(call_token[c])), BpeRanks),
                                 ProjectedOffsets(Unwrap(call_token[c]))))

\* The cache holds the entries of both texts, "ab" with its one merged
\* piece, and a call has been served from it.
C28_Witness ==
    /\ Cardinality(DOMAIN cache) = 2
    /\ << 97, 98 >> \in DOMAIN cache
    /\ cache[<< 97, 98 >>] = << << << 97, 98 >> >>, << 2 >> >>
    /\ \E c \in Callers : ServedFromCache(c)

\* ========================================================================
\* A ConsolidatedTokenIterator and the calls of next on it
\* (base_tokenizer.rs 205-266)
\* ========================================================================
\* The sequences iterated over hold at most MaxTokens tokens; next is called
\* at most MaxCallsPastEnd times after it first returned None.
MaxTokens == 4

MaxCallsPastEnd == 2

IterMasks == { "None", "Begin", "Continuation", "Special" }

\* The i-th token of a sequence: its text and offsets tell it from the others
IterToken(i, mask) == Token(<< 96 + i >>, Offset(i - 1, i), << i - 1 >>, mask)

TokenSequences ==
    UNION { { [i \in 1..n |-> IterToken(i, masks[i])] : masks \in [1..n -> IterMasks] } :
              n \in 0..MaxTokens }

InitIter ==
    /\ IdleTrunc
    /\ IdleEncode
    /\ IdleCanister
    /\ IdleVocab
    /\ IdleMerge
    /\ IdleUtil
    /\ IdleBpe
    /\ \E tokens \in TokenSequences : iter = ConsolidatedTokenIterator_new(tokens)
    /\ iter_items = << >>
    /\ iter_panic = FALSE

CallsPastEnd == Cardinality({ i \in 1..Len(iter_items) : iter_items[i] = None })

\* A call of next
IterNext ==
    /\ ~iter_panic
    /\ CallsPastEnd < MaxCallsPastEnd
    /\ \E out \in { ConsolidatedTokenIterator_next(iter) } :
          /\ iter' = out.iter
          /\ iter_items' = Append(iter_items, out.item)
          /\ iter_panic' = out.panic
    /\ UNCHANGED otherThanIter

\* The same backing sequence wrapped again
IterNew ==
    /\ iter_items # << >>
    /\ iter' = ConsolidatedTokenIterator_new(iter.tokens)
    /\ iter_items' = << >>
    /\ iter_panic' = FALSE
    /\ UNCHANGED otherThanIter

NextIter ==
    \/ IterNext
    \/ IterNew

SpecIter == InitIter /\ [][NextIter]_vars

\* The groups yielded so far, in order
Groups == SelectSeq(iter_items, LAMBDA item : item # None)

MasksOf(tokens) == [i \in 1..Len(tokens) |-> tokens[i].mask]

GroupMasks == [k \in 1..Len(Groups) |-> MasksOf(Unwrap(Groups[k]))]

\* next has returned None: the iteration has ended
Ended == \E i \in 1..Len(iter_items) : iter_items[i] = None

\* ------------------------------------------------------------------------
\* C14
\* ------------------------------------------------------------------------
IsC14Sequence ==
    MasksOf(iter.tokens) = << "None", "Begin", "Continuation", "None" >>

\* C14: for the masks [None, Begin, Continuation, None] the iterator yields
\* exactly two groups, [Begin, Continuation] and [None], and then ends.
C14_TwoGroups ==
    (IsC14Sequence /\ Ended) =>
        GroupMasks = << << "Begin", "Continuation" >>, << "None" >> >>

\* What the k-th call of next returns for the masks of C14
C14Expected(k) ==
    IF k = 1 THEN Some(SubSeq(iter.tokens, 1, 1))
    ELSE IF k = 2 THEN Some(SubSeq(iter.tokens, 2, 3))
    ELSE IF k = 3 THEN Some(SubSeq(iter.tokens, 4, 4))
    ELSE None

\* C14 as amended: for the masks [None, Begin, Continuation, None] the
\* iterator yields exactly three groups, [None], [Begin, Continuation] and
\* [None], in this order, and then ends.
C14_ThreeGroups ==
    IsC14Sequence =>
        /\ ~iter_panic
        /\ \A k \in 1..Len(iter_items) : iter_items[k] = C14Expected(k)

\* The three groups were yielded and the next call returned None.
C14_Witness ==
    /\ IsC14Sequence
    /\ Len(Groups) = 3
    /\ Ended

\* ------------------------------------------------------------------------
\* C15
\* ------------------------------------------------------------------------
\* The number of tokens in the groups yielded so far
Yielded == Len(Flatten([k \in 1..Len(Groups) |-> Unwrap(Groups[k])]))

\* The position in tokens of the last token of the k-th group
GroupEnd(k) == Len(Flatten([j \in 1..k |-> Unwrap(Groups[j])]))

\* C15: the groups yielded by successive calls of next are non-empty;
\* concatenated in order they are the input sequence, no token skipped or
\* repeated; every token after the first of a group has the mask
\* Continuation; a group ends exactly where the next token's mask is not
\* Continuation; after the last group every further call returns None.
C15_MaximalRuns ==
    /\ ~iter_panic
    /\ \A k \in 1..Len(Groups) :
          /\ Unwrap(Groups[k]) # << >>
          /\ \A i \in 2..Len(Unwrap(Groups[k])) :
                Unwrap(Groups[k])[i].mask = "Continuation"
          /\ GroupEnd(k) <= Len(iter.tokens)
          /\ GroupEnd(k) < Len(iter.tokens) =>
                iter.tokens[GroupEnd(k) + 1].mask # "Continuation"
    /\ Yielded <= Len(iter.tokens)
    /\ Flatten([k \in 1..Len(Groups) |-> Unwrap(Groups[k])])
          = SubSeq(iter.tokens, 1, Yielded)
    /\ Ended => Yielded = Len(iter.tokens)
    /\ \A i, j \in 1..Len(iter_items) :
          (i < j /\ iter_items[i] = None) => iter_items[j] = None

\* A sequence of at least three groups, one of them a run of several
\* tokens, was iterated to its end, and next was called again after it had
\* returned None.
C15_Witness ==
    /\ Ended
    /\ CallsPastEnd = MaxCallsPastEnd
    /\ Len(Groups) >= 3
    /\ \E k \in 1..Len(Groups) : Len(Unwrap(Groups[k])) >= 2

\* ========================================================================
\* bpe, one call of group_common_pairs at a time
\* (tokenization_utils.rs 431-513)
\* ========================================================================
\* The strings merged have at most MaxTextLen characters out of "a", "b",
\* "c"; a merge table ranks at most MaxMerges pairs.
MaxTextLen == 4

MaxMerges == 2

\* More calls of group_common_pairs than any call of bpe explored makes
MaxRounds == MaxTextLen + 1

MergeAlphabet == { 97, 98, 99 }

MergeTexts == UNION { [1..n -> MergeAlphabet] : n \in 0..MaxTextLen }

\* The pairs a table may rank: of single characters, one of them with both
\* halves alike, and of symbols that are themselves merges
MergePairs ==
    { << << 97 >>, << 98 >> >>, << << 98 >>, << 99 >> >>, << << 97 >>, << 97 >> >>,
      << << 97, 98 >>, << 99 >> >>, << << 97 >>, << 98, 99 >> >>,
      << << 97, 97 >>, << 97 >> >> }

\* The tables: the pairs of a list without repetition, ranked by position
MergeLists ==
    UNION { { l \in [1..n -> MergePairs] : \A i, j \in 1..n : l[i] = l[j] => i = j } :
              n \in 0..MaxMerges }

TableOf(l) == [values |-> [p \in Range(l) |-> (CHOOSE i \in 1..Len(l) : l[i] = p) - 1]]

MergeTables == { TableOf(l) : l \in MergeLists }

InitMerge ==
    /\ IdleTrunc
    /\ IdleIter
    /\ IdleEncode
    /\ IdleCanister
    /\ IdleVocab
    /\ IdleBpe
    /\ IdleUtil
    /\ IdleMerge

\* bpe is called: lines 498-502, one symbol per character and done = false
BpeCall ==
    /\ merge_pc = "idle"
    /\ \E token \in MergeTexts, bpe_ranks \in MergeTables :
          /\ merge_token' = token
          /\ merge_ranks' = bpe_ranks
          /\ merge_output' = [tokens |-> [i \in 1..Len(token) |-> << token[i] >>],
                              done |-> FALSE]
    /\ merge_pc' = "loop"
    /\ merge_rounds' = 0
    /\ merge_result' = None
    /\ UNCHANGED otherThanMerge

\* Line 504: output = group_common_pairs(output.0, bpe_ranks)
GroupCommonPairs ==
    /\ merge_pc = "loop"
    /\ ~merge_output.done
    /\ merge_rounds < MaxRounds
    /\ merge_output' = group_common_pairs(merge_output.tokens, merge_ranks)
    /\ merge_rounds' = merge_rounds + 1
    /\ UNCHANGED << merge_pc, merge_ranks, merge_token, merge_result, otherThanMerge >>

\* Lines 505-512: the loop is left and the pieces are returned with their
\* char counts
BpeReturn ==
    /\ merge_pc = "loop"
    /\ merge_output.done
    /\ merge_result' = Some(WithCharCounts(merge_output.tokens))
    /\ merge_pc' = "returned"
    /\ UNCHANGED << merge_ranks, merge_token, merge_output, merge_rounds,
                    otherThanMerge >>

\* The caller has taken the result; another call may follow.
BpeDone ==
    /\ merge_pc = "returned"
    /\ merge_pc' = "idle"
    /\ merge_ranks' = << >>
    /\ merge_token' = << >>
    /\ merge_output' = << >>
    /\ merge_rounds' = 0
    /\ merge_result' = << >>
    /\ UNCHANGED otherThanMerge

\* The steps inside a call
BpeStep == GroupCommonPairs \/ BpeReturn

NextMerge ==
    \/ BpeCall
    \/ GroupCommonPairs
    \/ BpeReturn
    \/ BpeDone

\* A call that has begun goes on: nothing else runs in its thread.
SpecMerge == InitMerge /\ [][NextMerge]_vars /\ WF_vars(BpeStep)

\* The value returned by the steps is the value of bpe.
StepsAgreeWithBpe ==
    (merge_pc = "returned") => Unwrap(merge_result) = bpe(merge_token, merge_ranks)

\* ------------------------------------------------------------------------
\* C24
\* ------------------------------------------------------------------------
\* The procedure bpe is compared with.  The positions whose adjacent pair
\* the table ranks:
RankedAt(symbols, table) ==
    { i \in 1..(Len(symbols) - 1) : << symbols[i], symbols[i + 1] >> \in DOMAIN table }

\* the adjacent pair of lowest rank:
LowestPair(symbols, table) ==
    LET i == CHOOSE i \in RankedAt(symbols, table) :
                \A j \in RankedAt(symbols, table) :
                   table[<< symbols[i], symbols[i + 1] >>]
                      <= table[<< symbols[j], symbols[j + 1] >>]
    IN  << symbols[i], symbols[i + 1] >>

\* every non-overlapping occurrence of the pair, from left to right,
\* replaced by its concatenation:
RECURSIVE ReplacePair(_, _)
ReplacePair(symbols, pair) ==
    IF Len(symbols) < 2 THEN symbols
    ELSE IF << symbols[1], symbols[2] >> = pair
    THEN << pair[1] \o pair[2] >> \o ReplacePair(Tail(Tail(symbols)), pair)
    ELSE << Head(symbols) >> \o ReplacePair(Tail(symbols), pair)

\* repeated while more than one symbol remains and some pair is ranked.
RECURSIVE ReferenceMerge(_, _)
ReferenceMerge(symbols, table) ==
    IF Len(symbols) <= 1 \/ RankedAt(symbols, table) = {} THEN symbols
    ELSE ReferenceMerge(ReplacePair(symbols, LowestPair(symbols, table)), table)

ReferenceBpe(text, table) == ReferenceMerge([i \in 1..Len(text) |-> << text[i] >>], table)

\* C24: the pieces bpe returns for a string and a merge table are those of
\* the reference procedure (one symbol per character; while more than one
\* symbol remains and some adjacent pair is ranked, every non-overlapping
\* left-to-right occurrence of the adjacent pair of lowest rank is replaced
\* by its concatenation), with the number of characters of each piece; in
\* particular "ab" with a table that ranks (a, b) gives the one piece "ab".
C24_BpeIsReference ==
    (merge_pc = "returned") =>
        /\ Unwrap(merge_result)[1] = ReferenceBpe(merge_token, merge_ranks.values)
        /\ Unwrap(merge_result)[2]
              = [i \in 1..Len(Unwrap(merge_result)[1]) |-> Len(Unwrap(merge_result)[1][i])]
        /\ Unwrap(merge_result) = bpe(merge_token, merge_ranks)
        /\ (/\ merge_token = << 97, 98 >>
            /\ << << 97 >>, << 98 >> >> \in DOMAIN merge_ranks.values)
              => Unwrap(merge_result)[1] = << << 97, 98 >> >>

\* bpe has returned for "abab" with a table that ranks (a, b) and a pair
\* made of merged symbols: several occurrences were replaced in one round.
C24_Witness ==
    /\ merge_pc = "returned"
    /\ merge_token = << 97, 98, 97, 98 >>
    /\ << << 97 >>, << 98 >> >> \in DOMAIN merge_ranks.values
    /\ Unwrap(merge_result)[1] = << << 97, 98 >>, << 97, 98 >> >>

\* ------------------------------------------------------------------------
\* C29
\* ------------------------------------------------------------------------
\* A step that is a call of group_common_pairs
IsRound == merge_pc = "loop" /\ merge_rounds' = merge_rounds + 1

\* C29: bpe terminates: a call of group_common_pairs that does not report
\* completion returns strictly fewer symbols than it was given, a string of
\* n >= 1 characters takes at most n - 1 such calls, hence at most n calls
\* with the one that reports completion (the empty string takes that one
\* call), and every call of bpe returns.
C29_BpeTerminates ==
    /\ [][(IsRound /\ ~merge_output'.done)
             => Len(merge_output'.tokens) < Len(merge_output.tokens)]_vars
    /\ [](merge_pc = "loop" =>
             /\ merge_rounds <= (IF merge_token = << >> THEN 1 ELSE Len(merge_token))
             /\ (~merge_output.done /\ Len(merge_token) >= 1)
                   => merge_rounds <= Len(merge_token) - 1)
    /\ (merge_pc = "loop") ~> (merge_pc = "returned")

\* A call for "abc" has returned the one piece "abc" after n - 1 = 2 calls
\* of group_common_pairs, the first of which merged without reporting
\* completion.
C29_Witness ==
    /\ merge_pc = "returned"
    /\ merge_token = << 97, 98, 99 >>
    /\ merge_rounds = 2
    /\ Unwrap(merge_result)[1] = << << 97, 98, 99 >> >>

\* ========================================================================
\* Calls of split_on_special_tokens, fix_mask and tokenize_to_tokens
\* (tokenization_utils.rs 35-53, 129-206, 623-631; gpt2_tokenizer.rs 84-116)
\* ========================================================================
\* The texts are made of at most MaxUtilPieces pieces.
MaxUtilPieces == 3

\* "a", "b", "A", " ", "é", "<|endoftext|>" and U+0130, whose lower case
\* has two chars
UtilPieces == TextPieces \cup { << 304 >> }

RECURSIVE UtilTextsOf(_)
UtilTextsOf(n) ==
    IF n = 0 THEN { << >> }
    ELSE UtilTextsOf(n - 1) \cup { t \o q : t \in UtilTextsOf(n - 1), q \in UtilPieces }

UtilTexts == UtilTextsOf(MaxUtilPieces)

\* {"a":0,"aa":1,"<|endoftext|>":2} with "aa" registered as the pad token
\* next to the unknown token: two special values, one of which overlaps
\* itself in "aaa"
PadVocabs ==
    from_values_and_special_token_map(
        (<< 97 >> :> 0) @@ (<< 97, 97 >> :> 1) @@ (DEFAULT_UNK_TOKEN :> 2),
        SpecialTokenMap(DEFAULT_UNK_TOKEN, Some(<< 97, 97 >>), None, None, None,
                        None, None, None))

UtilVocabs == Gpt2Vocab_from_cache(SmallVocabText) \cup PadVocabs

\* The token a text is wrapped in (base_tokenizer.rs 517-518)
WholeText(text) == TokenRef_new(text, [i \in 1..Len(text) |-> i - 1])

InitUtil ==
    /\ IdleTrunc
    /\ IdleIter
    /\ IdleEncode
    /\ IdleCanister
    /\ IdleVocab
    /\ IdleBpe
    /\ IdleMerge
    /\ IdleUtil

SplitOnSpecialTokens ==
    /\ util_call.call = "none"
    /\ \E vocab \in UtilVocabs, text \in UtilTexts :
          \E key_order \in KeyOrders(vocab) :
             util_call' =
                [call |-> "split_on_special_tokens", vocab |-> vocab,
                 token |-> WholeText(text),
                 result |-> split_on_special_tokens(WholeText(text), vocab, key_order)]
    /\ UNCHANGED otherThanUtil

FixMask ==
    /\ util_call.call = "none"
    /\ \E tokens \in TokenSequences :
          util_call' = [call |-> "fix_mask", tokens |-> tokens,
                        result |-> fix_mask(tokens)]
    /\ UNCHANGED otherThanUtil

TokenizeToTokens ==
    /\ util_call.call = "none"
    /\ \E tokenizer \in Tokenizers, text \in UtilTexts :
          \E key_order \in KeyOrders(tokenizer.vocab) :
             util_call' =
                [call |-> "tokenize_to_tokens", lower_case |-> tokenizer.lower_case,
                 token |-> WholeText(text),
                 result |-> tokenize_to_tokens(tokenizer, key_order,
                                               WholeText(text)).tokens]
    /\ UNCHANGED otherThanUtil

\* The caller has taken the result; another call may follow.
UtilDone ==
    /\ util_call.call # "none"
    /\ util_call' = [call |-> "none"]
    /\ UNCHANGED otherThanUtil

NextUtil ==
    \/ SplitOnSpecialTokens
    \/ FixMask
    \/ TokenizeToTokens
    \/ UtilDone

SpecUtil == InitUtil /\ [][NextUtil]_vars

\* ------------------------------------------------------------------------
\* C25
\* ------------------------------------------------------------------------
IsSplitCall == util_call.call = "split_on_special_tokens"

\* The tokens are spans of the input, in source order, no two overlapping
OrderedDisjoint(tokens, text) ==
    /\ \A i \in 1..Len(tokens) :
          /\ tokens[i].offset.begin <= tokens[i].offset.end
          /\ tokens[i].offset.end <= Len(text)
          /\ tokens[i].text = Slice(text, tokens[i].offset.begin, tokens[i].offset.end)
    /\ \A i \in 1..(Len(tokens) - 1) :
          tokens[i].offset.end <= tokens[i + 1].offset.begin

\* The texts of the tokens, concatenated, are the input text
Covers(tokens, text) == Flatten([i \in 1..Len(tokens) |-> tokens[i].text]) = text

\* C25: split_on_special_tokens partitions its input, for every text and
\* every set of registered special tokens: the tokens are in source order,
\* no two overlap, and their texts concatenated give the input text.
C25_Partition ==
    IsSplitCall =>
        /\ OrderedDisjoint(util_call.result, util_call.token.text)
        /\ Covers(util_call.result, util_call.token.text)

\* With "<|endoftext|>" as the only special value the tokens are in source
\* order and do not overlap.
C25_OrderedDisjointGpt2 ==
    (IsSplitCall /\ DOMAIN util_call.vocab.special_values = { DEFAULT_UNK_TOKEN })
        => OrderedDisjoint(util_call.result, util_call.token.text)

\* ------------------------------------------------------------------------
\* C26
\* ------------------------------------------------------------------------
IsFixMaskCall == util_call.call = "fix_mask"

\* fix_mask changes masks only: as many tokens, each with its text and
\* offsets
OnlyMasksChange(before, after) ==
    /\ Len(after) = Len(before)
    /\ \A i \in 1..Len(before) : [after[i] EXCEPT !.mask = before[i].mask] = before[i]

\* C26: fix_mask rewrites to Begin every token that has the mask
\* Continuation and whose predecessor has the mask None, and leaves the
\* mask of every other token unchanged.
C26_ContinuationBecomesBegin ==
    IsFixMaskCall =>
        /\ OnlyMasksChange(util_call.tokens, util_call.result)
        /\ \A i \in 1..Len(util_call.tokens) :
              util_call.result[i].mask =
                 IF /\ i > 1
                    /\ util_call.tokens[i].mask = "Continuation"
                    /\ util_call.tokens[i - 1].mask = "None"
                 THEN "Begin"
                 ELSE util_call.tokens[i].mask

\* C26 as amended: fix_mask rewrites to Begin every token that has the mask
\* None and whose successor has the mask Continuation, and leaves the mask
\* of every other token (the Continuation token included) unchanged.
C26_PredecessorBecomesBegin ==
    IsFixMaskCall =>
        /\ OnlyMasksChange(util_call.tokens, util_call.result)
        /\ \A i \in 1..Len(util_call.tokens) :
              util_call.result[i].mask =
                 IF /\ i < Len(util_call.tokens)
                    /\ util_call.tokens[i].mask = "None"
                    /\ util_call.tokens[i + 1].mask = "Continuation"
                 THEN "Begin"
                 ELSE util_call.tokens[i].mask

\* fix_mask was called on the masks [Special, None, Continuation,
\* Continuation] and returned [Special, Begin, Continuation, Continuation].
C26_Witness ==
    /\ IsFixMaskCall
    /\ MasksOf(util_call.tokens) = << "Special", "None", "Continuation", "Continuation" >>
    /\ MasksOf(util_call.result) = << "Special", "Begin", "Continuation", "Continuation" >>

\* ------------------------------------------------------------------------
\* C27
\* ------------------------------------------------------------------------
IsTokenizeCall == util_call.call = "tokenize_to_tokens"

\* The token has one reference offset per character of its text, and its
\* offset runs from the first of them to one past the last
OffsetsMatchText(token) ==
    /\ Len(token.reference_offsets) = Len(token.text)
    /\ token.reference_offsets # << >>
    /\ token.offset = Offset(Head(token.reference_offsets),
                             Last(token.reference_offsets) + 1)

\* C27: every token tokenize_to_tokens returns, for every text (special
\* tokens, lower-cased spans and multi-byte characters included), has as
\* many reference offsets as its text has characters, and its offset is
\* (reference_offsets[0], reference_offsets[last] + 1).
C27_OffsetsMatchText ==
    IsTokenizeCall =>
        \A i \in 1..Len(util_call.result) : OffsetsMatchText(util_call.result[i])

\* A lower-casing tokenizer has returned the tokens of U+0130 "é"
\* "<|endoftext|>": three tokens for the two chars U+0130 becomes, all at
\* the reference offset 0, two for the bytes of "é" at the reference
\* offset 1, and the special token at the offsets 2..15.
C27_Witness ==
    /\ IsTokenizeCall
    /\ util_call.lower_case
    /\ util_call.token.text = << 304, 233 >> \o DEFAULT_UNK_TOKEN
    /\ MasksOf(util_call.result)
          = << "None", "Begin", "Continuation", "Begin", "Continuation", "Unknown" >>
    /\ \A i \in 1..3 : util_call.result[i].reference_offsets = << 0 >>
    /\ \A i \in 4..5 : util_call.result[i].reference_offsets = << 1 >>
    /\ util_call.result[6].offset = Offset(2, 15)

====
